---- MODULE Spec2Model ----
(***************************************************************************)
(* VirtualCore (src/src/VirtualCore.ts): the position table of a virtual   *)
(* list with rows of unequal height, its render-range query, the height    *)
(* update with scroll anchoring, and the iterative scroll-to session.      *)
(*                                                                         *)
(* Row i of the source (0-based) is positions[i + 1] here.  One action is  *)
(* one public call of the host or one completion delivered by the event    *)
(* loop (a deferred microtask, a promise settlement); a handler runs to    *)
(* its end inside the action, the callbacks it invokes are appended to     *)
(* c.events in the order of invocation.                                    *)
(***************************************************************************)
EXTENDS Integers, Sequences, FiniteSets, TLC

\* ------------------------------------------------------------------------
\* Bounds of the model
\* ------------------------------------------------------------------------
MaxTotal == 2            \* totals passed to the constructor, setTotal, reset
MaxHeight == 2           \* measured heights are 0..MaxHeight
MaxScrollTop == 1        \* scroll positions passed to updateHeights
MaxSessions == 2         \* scrollToIndex calls in one behaviour
MaxTasks == 2            \* completions in flight at one time
MaxRows == 3             \* totals of the table specification
MaxBatch == 2            \* updates in one batch of the table specification
MaxView == 2             \* viewport heights passed to getRenderRange

\* Configuration the host passes to the constructor
DefaultHeight == 1

\* config.buffer ?? 5
DefaultBuffer == 5

\* options?.maxIterations ?? 10
DefaultMaxIterations == 10

\* An optional argument: None when absent (undefined), Some(v) otherwise
None == <<>>
Some(v) == <<v>>

VARIABLES
  total,          \* this.total
  defaultHeight,  \* this.defaultHeight
  buffer,         \* this.buffer
  positions,      \* this.positions
  scrollToCtx,    \* this.scrollToCtx (NoCtx for null)
  tasks,          \* completions in flight: queued microtasks, pending promises
  nextSid,        \* identity of the next ScrollToContext object
  hist,           \* per session: number of onScroll/onComplete/onAbort calls
  notified,       \* argument of the most recent onTotalHeightChange
  last            \* the last call: operation, arguments, result, callbacks

vars == <<total, defaultHeight, buffer, positions, scrollToCtx, tasks,
          nextSid, hist, notified, last>>

\* ------------------------------------------------------------------------
\* Values
\* ------------------------------------------------------------------------
Max(a, b) == IF a >= b THEN a ELSE b
Min(a, b) == IF a <= b THEN a ELSE b
Abs(a) == IF a < 0 THEN -a ELSE a

\* interface ItemPosition
ItemPosition(i, h, t, b) == [index |-> i, height |-> h, top |-> t, bottom |-> b]

\* this.scrollToCtx = null
NoCtx == [sid |-> 0, targetIndex |-> 0, lastTop |-> 0, iterations |-> 0,
          maxIterations |-> 0, threshold |-> 0, status |-> "none",
          pendingHeightUpdate |-> FALSE]

\* One callback invocation: onScroll(x), onComplete(x, y), onAbort(reason),
\* onTotalHeightChange(x); sid is the session the callbacks belong to.
Ev(cb, sid, x, y, reason) == [cb |-> cb, sid |-> sid, x |-> x, y |-> y, reason |-> reason]

NoHist == [scrolls |-> 0, completes |-> 0, aborts |-> 0]

\* What the terminal callback cb of session sid finds when it is invoked on
\* the object c: the answer isScrolling() would give it
Seen(cb, sid, c) == [cb |-> cb, sid |-> sid, isScrolling |-> c.scrollToCtx # NoCtx]

\* positions[i] of the source
At(pos, i) == pos[i + 1]

\* ------------------------------------------------------------------------
\* Position table
\* ------------------------------------------------------------------------

\* A total height read from the top of the last row
getTotalHeight_lastTop(c) ==
  IF c.total = 0 \/ Len(c.positions) = 0 THEN 0
  ELSE IF c.total - 1 >= Len(c.positions) THEN 0
  ELSE At(c.positions, c.total - 1).top

\* getTotalHeight()
getTotalHeight(c) ==
  IF c.total = 0 \/ Len(c.positions) = 0 THEN 0
  ELSE IF c.total - 1 >= Len(c.positions) THEN 0
  ELSE At(c.positions, c.total - 1).bottom

\* A notification that never reaches the host
_notifyHeightChange_silent(c) == c

\* _notifyHeightChange()
_notifyHeightChange(c) ==
  LET h == getTotalHeight(c) IN
  [c EXCEPT !.notified = h,
            !.events = Append(@, Ev("onTotalHeightChange", 0, h, 0, ""))]

\* An _initPositions that rebuilds the table and tells nobody
_initPositions_silent(c) ==
  [c EXCEPT !.positions =
     [k \in 1..c.total |->
        ItemPosition(k - 1, c.defaultHeight, (k - 1) * c.defaultHeight,
                     k * c.defaultHeight)]]

\* _initPositions()
_initPositions(c) ==
  _notifyHeightChange(
    [c EXCEPT !.positions =
       [k \in 1..c.total |->
          ItemPosition(k - 1, c.defaultHeight, (k - 1) * c.defaultHeight,
                       k * c.defaultHeight)]])

\* _recalculatePositions(fromIndex): the loop body for row i, then the rest
RECURSIVE RecalcLoop(_, _, _)
RecalcLoop(pos, i, tot) ==
  IF i >= tot THEN pos
  ELSE LET top == IF i = 0 THEN 0 ELSE At(pos, i - 1).bottom
           row == [At(pos, i) EXCEPT !.top = top, !.bottom = top + At(pos, i).height]
       IN RecalcLoop([pos EXCEPT ![i + 1] = row], i + 1, tot)

\* A recalculation that leaves the row at fromIndex as it is
_recalculatePositions_skipFirst(c, fromIndex) ==
  [c EXCEPT !.positions = RecalcLoop(c.positions, fromIndex + 1, c.total)]

_recalculatePositions(c, fromIndex) ==
  [c EXCEPT !.positions = RecalcLoop(c.positions, fromIndex, c.total)]

\* _findStartIndex(scrollTop): the while loop of the binary search
RECURSIVE SearchLoop(_, _, _, _)
SearchLoop(pos, low, high, scrollTop) ==
  IF low > high THEN 0
  ELSE LET mid == (low + high) \div 2
           midBottom == At(pos, mid).bottom
       IN IF midBottom > scrollTop
          THEN IF mid = 0 \/ At(pos, mid - 1).bottom <= scrollTop
               THEN mid
               ELSE SearchLoop(pos, low, mid - 1, scrollTop)
          ELSE SearchLoop(pos, mid + 1, high, scrollTop)

_findStartIndex(c, scrollTop) ==
  IF Len(c.positions) = 0 THEN 0
  ELSE LET lastIndex == Len(c.positions) - 1 IN
       IF scrollTop <= 0 THEN 0
       ELSE IF scrollTop >= At(c.positions, lastIndex).bottom THEN c.total
       ELSE SearchLoop(c.positions, 0, lastIndex, scrollTop)

\* The indices at which _findStartIndex(scrollTop) reads this.positions:
\* those of the while loop, then those of the whole function
RECURSIVE SearchLoopReads(_, _, _, _)
SearchLoopReads(pos, low, high, scrollTop) ==
  IF low > high THEN {}
  ELSE LET mid == (low + high) \div 2
       IN IF mid < 0 \/ mid >= Len(pos) THEN {mid}
          ELSE IF At(pos, mid).bottom > scrollTop
          THEN IF mid = 0 THEN {mid}
               ELSE IF At(pos, mid - 1).bottom <= scrollTop THEN {mid, mid - 1}
               ELSE {mid, mid - 1} \cup SearchLoopReads(pos, low, mid - 1, scrollTop)
          ELSE {mid} \cup SearchLoopReads(pos, mid + 1, high, scrollTop)

_findStartIndexReads(c, scrollTop) ==
  IF Len(c.positions) = 0 THEN {}
  ELSE LET lastIndex == Len(c.positions) - 1 IN
       IF scrollTop <= 0 THEN {}
       ELSE IF scrollTop >= At(c.positions, lastIndex).bottom THEN {lastIndex}
       ELSE {lastIndex} \cup SearchLoopReads(c.positions, 0, lastIndex, scrollTop)

\* The indices at which getRenderRange(scrollTop, viewHeight) reads
\* this.positions, its two searches included
getRenderRangeReads(c, scrollTop, viewHeight) ==
  IF c.total = 0 THEN {}
  ELSE LET anchorIndex == Min(_findStartIndex(c, scrollTop), c.total - 1)
           startIndex == Max(0, anchorIndex - c.buffer)
       IN _findStartIndexReads(c, scrollTop)
            \cup _findStartIndexReads(c, scrollTop + viewHeight)
            \cup {startIndex}

\* getRenderRange whose end is not held at the last row
getRenderRange_unclampedEnd(c, scrollTop, viewHeight) ==
  IF c.total = 0
  THEN [startIndex |-> 0, endIndex |-> -1, offset |-> 0, anchorIndex |-> 0]
  ELSE LET anchorIndex == Min(_findStartIndex(c, scrollTop), c.total - 1)
           startIndex == Max(0, anchorIndex - c.buffer)
           endAnchor == _findStartIndex(c, scrollTop + viewHeight)
           endIndex == endAnchor + c.buffer
       IN [startIndex |-> startIndex, endIndex |-> endIndex,
           offset |-> At(c.positions, startIndex).top,
           anchorIndex |-> anchorIndex]

\* getRenderRange whose end stops one row short of scrollTop + viewHeight
getRenderRange_shortEnd(c, scrollTop, viewHeight) ==
  IF c.total = 0
  THEN [startIndex |-> 0, endIndex |-> -1, offset |-> 0, anchorIndex |-> 0]
  ELSE LET anchorIndex == Min(_findStartIndex(c, scrollTop), c.total - 1)
           startIndex == Max(0, anchorIndex - c.buffer)
           endAnchor == _findStartIndex(c, scrollTop + viewHeight)
           endIndex == Min(c.total - 1, Max(anchorIndex, endAnchor - 1 + c.buffer))
       IN [startIndex |-> startIndex, endIndex |-> endIndex,
           offset |-> At(c.positions, startIndex).top,
           anchorIndex |-> anchorIndex]

\* getRenderRange whose answer for the empty list ends at row 0
getRenderRange_emptyEndsAtZero(c, scrollTop, viewHeight) ==
  IF c.total = 0
  THEN [startIndex |-> 0, endIndex |-> 0, offset |-> 0, anchorIndex |-> 0]
  ELSE LET anchorIndex == Min(_findStartIndex(c, scrollTop), c.total - 1)
           startIndex == Max(0, anchorIndex - c.buffer)
           endAnchor == _findStartIndex(c, scrollTop + viewHeight)
           endIndex == Min(c.total - 1, endAnchor + c.buffer)
       IN [startIndex |-> startIndex, endIndex |-> endIndex,
           offset |-> At(c.positions, startIndex).top,
           anchorIndex |-> anchorIndex]

\* getRenderRange(scrollTop, viewHeight)
getRenderRange(c, scrollTop, viewHeight) ==
  IF c.total = 0
  THEN [startIndex |-> 0, endIndex |-> -1, offset |-> 0, anchorIndex |-> 0]
  ELSE LET anchorIndex == Min(_findStartIndex(c, scrollTop), c.total - 1)
           startIndex == Max(0, anchorIndex - c.buffer)
           endAnchor == _findStartIndex(c, scrollTop + viewHeight)
           endIndex == Min(c.total - 1, endAnchor + c.buffer)
       IN [startIndex |-> startIndex, endIndex |-> endIndex,
           offset |-> At(c.positions, startIndex).top,
           anchorIndex |-> anchorIndex]

\* A getTopByIndex that answers an index past the end with the top of the
\* last row
getTopByIndex_lastRowTop(c, index) ==
  IF index < 0 \/ c.total = 0 THEN 0
  ELSE IF index >= c.total THEN At(c.positions, c.total - 1).top
  ELSE At(c.positions, index).top

\* getTopByIndex(index)
getTopByIndex(c, index) ==
  IF index < 0 THEN 0
  ELSE IF index >= c.total THEN getTotalHeight(c)
  ELSE At(c.positions, index).top

\* getItemPosition(index): null is NoItem
NoItem == ItemPosition(-1, -1, -1, -1)
getItemPosition(c, index) ==
  IF index < 0 \/ index >= c.total THEN NoItem ELSE At(c.positions, index)

\* The object getItemPosition(index) hands to the caller: null, or a new
\* object holding a copy of the row ({ ...this.positions[index] })
getItemPositionObject_shared(c, index) ==
  IF index < 0 \/ index >= c.total THEN [kind |-> "null", row |-> -1]
  ELSE [kind |-> "row", row |-> index]

getItemPositionObject(c, index) ==
  IF index < 0 \/ index >= c.total THEN [kind |-> "null", row |-> -1]
  ELSE [kind |-> "copy", row |-> index]

\* The caller's assignment obj.height = h: it reaches the table only when obj
\* is a row of the table itself
assignHeight(c, obj, h) ==
  IF obj.kind = "row" THEN [c EXCEPT !.positions[obj.row + 1].height = h] ELSE c

\* ------------------------------------------------------------------------
\* Scroll-to session
\* ------------------------------------------------------------------------

\* An abort that invokes onAbort and keeps the session
_abortScrollTo_keepsSession(c, reason) ==
  IF c.scrollToCtx = NoCtx THEN c
  ELSE LET sid == c.scrollToCtx.sid IN
       [c EXCEPT !.hist[sid].aborts = @ + 1,
                 !.events = Append(@, Ev("onAbort", sid, 0, 0, reason))]

\* An abort that invokes onAbort first and clears the session afterwards
_abortScrollTo_callbackFirst(c, reason) ==
  IF c.scrollToCtx = NoCtx THEN c
  ELSE LET sid == c.scrollToCtx.sid
           c1 == [c EXCEPT !.hist[sid].aborts = @ + 1,
                           !.events = Append(@, Ev("onAbort", sid, 0, 0, reason)),
                           !.seen = Append(@, Seen("onAbort", sid, c))]
       IN [c1 EXCEPT !.scrollToCtx = NoCtx]

\* _abortScrollTo(reason): this.scrollToCtx = null, then callbacks.onAbort
_abortScrollTo(c, reason) ==
  IF c.scrollToCtx = NoCtx THEN c
  ELSE LET sid == c.scrollToCtx.sid
           c1 == [c EXCEPT !.scrollToCtx = NoCtx]
       IN [c1 EXCEPT !.hist[sid].aborts = @ + 1,
                     !.events = Append(@, Ev("onAbort", sid, 0, 0, reason)),
                     !.seen = Append(@, Seen("onAbort", sid, c1))]

\* A _doScroll that does not count the scroll it issues
_doScroll_noCount(c, targetTop, ret) ==
  IF c.scrollToCtx = NoCtx THEN c
  ELSE LET currentCtx == [c.scrollToCtx EXCEPT !.status = "scrolling",
                                               !.pendingHeightUpdate = FALSE]
           task == [sid |-> currentCtx.sid,
                    kind |-> IF ret = "promise" THEN "promise" ELSE "microtask",
                    n |-> currentCtx.iterations]
       IN [c EXCEPT !.scrollToCtx = currentCtx,
                    !.hist[currentCtx.sid].scrolls = @ + 1,
                    !.events = Append(@, Ev("onScroll", currentCtx.sid, targetTop, 0, "")),
                    !.tasks = Append(@, task)]

\* A _doScroll that issues the scroll and leaves the status as it found it
_doScroll_keepsStatus(c, targetTop, ret) ==
  IF c.scrollToCtx = NoCtx THEN c
  ELSE LET currentCtx == [c.scrollToCtx EXCEPT !.iterations = @ + 1,
                                               !.pendingHeightUpdate = FALSE]
           task == [sid |-> currentCtx.sid,
                    kind |-> IF ret = "promise" THEN "promise" ELSE "microtask",
                    n |-> currentCtx.iterations]
       IN [c EXCEPT !.scrollToCtx = currentCtx,
                    !.hist[currentCtx.sid].scrolls = @ + 1,
                    !.events = Append(@, Ev("onScroll", currentCtx.sid, targetTop, 0, "")),
                    !.tasks = Append(@, task)]

\* _doScroll(targetTop); ret is what the host's onScroll returns: "void"
\* (synchronous) or "promise"
_doScroll(c, targetTop, ret) ==
  IF c.scrollToCtx = NoCtx THEN c
  ELSE LET currentCtx == [c.scrollToCtx EXCEPT !.status = "scrolling",
                                               !.iterations = @ + 1,
                                               !.pendingHeightUpdate = FALSE]
           task == [sid |-> currentCtx.sid,
                    kind |-> IF ret = "promise" THEN "promise" ELSE "microtask",
                    n |-> currentCtx.iterations]
       IN [c EXCEPT !.scrollToCtx = currentCtx,
                    !.hist[currentCtx.sid].scrolls = @ + 1,
                    !.events = Append(@, Ev("onScroll", currentCtx.sid, targetTop, 0, "")),
                    !.tasks = Append(@, task)]

\* A convergence check whose comparison with the threshold is strict
_checkScrollToConvergence_strict(c, ret) ==
  LET ctx == c.scrollToCtx IN
  IF ctx = NoCtx \/ ctx.status # "waiting" THEN c
  ELSE LET currentTop == At(c.positions, ctx.targetIndex).top
           diff == Abs(currentTop - ctx.lastTop)
       IN IF diff < ctx.threshold
          THEN [c EXCEPT !.scrollToCtx = NoCtx,
                         !.hist[ctx.sid].completes = @ + 1,
                         !.events = Append(@, Ev("onComplete", ctx.sid, currentTop,
                                                 ctx.iterations, ""))]
          ELSE IF ctx.iterations >= ctx.maxIterations
          THEN _abortScrollTo(c, "max iterations (" \o ToString(ctx.maxIterations)
                                 \o ") reached")
          ELSE _doScroll([c EXCEPT !.scrollToCtx.lastTop = currentTop],
                         currentTop, ret)

\* A convergence check that allows one iteration more than maxIterations
_checkScrollToConvergence_oneMore(c, ret) ==
  LET ctx == c.scrollToCtx IN
  IF ctx = NoCtx \/ ctx.status # "waiting" THEN c
  ELSE LET currentTop == At(c.positions, ctx.targetIndex).top
           diff == Abs(currentTop - ctx.lastTop)
       IN IF diff <= ctx.threshold
          THEN [c EXCEPT !.scrollToCtx = NoCtx,
                         !.hist[ctx.sid].completes = @ + 1,
                         !.events = Append(@, Ev("onComplete", ctx.sid, currentTop,
                                                 ctx.iterations, ""))]
          ELSE IF ctx.iterations > ctx.maxIterations
          THEN _abortScrollTo(c, "max iterations (" \o ToString(ctx.maxIterations)
                                 \o ") reached")
          ELSE _doScroll([c EXCEPT !.scrollToCtx.lastTop = currentTop],
                         currentTop, ret)

\* A convergence check that looks at the iteration bound first
_checkScrollToConvergence_boundFirst(c, ret) ==
  LET ctx == c.scrollToCtx IN
  IF ctx = NoCtx \/ ctx.status # "waiting" THEN c
  ELSE LET currentTop == At(c.positions, ctx.targetIndex).top
           diff == Abs(currentTop - ctx.lastTop)
       IN IF ctx.iterations >= ctx.maxIterations
          THEN _abortScrollTo(c, "max iterations (" \o ToString(ctx.maxIterations)
                                 \o ") reached")
          ELSE IF diff <= ctx.threshold
          THEN [c EXCEPT !.scrollToCtx = NoCtx,
                         !.hist[ctx.sid].completes = @ + 1,
                         !.events = Append(@, Ev("onComplete", ctx.sid, currentTop,
                                                 ctx.iterations, ""))]
          ELSE _doScroll([c EXCEPT !.scrollToCtx.lastTop = currentTop],
                         currentTop, ret)

\* _checkScrollToConvergence()
_checkScrollToConvergence(c, ret) ==
  LET ctx == c.scrollToCtx IN
  IF ctx = NoCtx \/ ctx.status # "waiting" THEN c
  ELSE LET currentTop == At(c.positions, ctx.targetIndex).top
           diff == Abs(currentTop - ctx.lastTop)
           c1 == [c EXCEPT !.scrollToCtx = NoCtx]
       IN IF diff <= ctx.threshold
          THEN [c1 EXCEPT !.hist[ctx.sid].completes = @ + 1,
                          !.events = Append(@, Ev("onComplete", ctx.sid, currentTop,
                                                  ctx.iterations, "")),
                          !.seen = Append(@, Seen("onComplete", ctx.sid, c1))]
          ELSE IF ctx.iterations >= ctx.maxIterations
          THEN _abortScrollTo(c, "max iterations (" \o ToString(ctx.maxIterations)
                                 \o ") reached")
          ELSE _doScroll([c EXCEPT !.scrollToCtx.lastTop = currentTop],
                         currentTop, ret)

\* A notifyScrollComplete that leaves the convergence check to the next
\* height update
notifyScrollComplete_noCheck(c, ret) ==
  IF c.scrollToCtx = NoCtx \/ c.scrollToCtx.status # "scrolling" THEN c
  ELSE [c EXCEPT !.scrollToCtx.pendingHeightUpdate = FALSE,
                 !.scrollToCtx.status = "waiting"]

\* notifyScrollComplete()
notifyScrollComplete(c, ret) ==
  IF c.scrollToCtx = NoCtx \/ c.scrollToCtx.status # "scrolling" THEN c
  ELSE _checkScrollToConvergence(
         [c EXCEPT !.scrollToCtx.pendingHeightUpdate = FALSE,
                   !.scrollToCtx.status = "waiting"], ret)

\* An abortScrollTo that invokes onAbort and keeps the session
abortScrollTo_keepsSession(c) == _abortScrollTo_keepsSession(c, "manually aborted")

\* abortScrollTo()
abortScrollTo(c) == _abortScrollTo(c, "manually aborted")

\* isScrolling()
isScrolling(c) == c.scrollToCtx # NoCtx

\* A scrollToIndex that replaces an active session without aborting it
scrollToIndex_noAbort(c, index, options, ret) ==
  LET i1 == IF index < 0 THEN 0 ELSE index
      i2 == IF i1 >= c.total THEN Max(0, c.total - 1) ELSE i1
      sid == c.nextSid
      c0 == [c EXCEPT !.nextSid = @ + 1]
  IN IF c.total = 0
     THEN [c0 EXCEPT !.hist[sid].completes = @ + 1,
                     !.events = Append(@, Ev("onComplete", sid, 0, 0, ""))]
     ELSE LET threshold == IF options.threshold = None
                           THEN c.defaultHeight ELSE options.threshold[1]
              maxIterations == IF options.maxIterations = None
                               THEN DefaultMaxIterations ELSE options.maxIterations[1]
              targetTop == At(c.positions, i2).top
              ctx == [sid |-> sid, targetIndex |-> i2, lastTop |-> targetTop,
                      iterations |-> 0, maxIterations |-> maxIterations,
                      threshold |-> threshold, status |-> "idle",
                      pendingHeightUpdate |-> FALSE]
          IN _doScroll([c0 EXCEPT !.scrollToCtx = ctx], targetTop, ret)

\* A scrollToIndex that returns from an empty list without calling onComplete
scrollToIndex_emptySilent(c, index, options, ret) ==
  LET i1 == IF index < 0 THEN 0 ELSE index
      i2 == IF i1 >= c.total THEN Max(0, c.total - 1) ELSE i1
      sid == c.nextSid
      c0 == [c EXCEPT !.nextSid = @ + 1]
  IN IF c.total = 0
     THEN c0
     ELSE LET c1 == IF c0.scrollToCtx # NoCtx
                    THEN _abortScrollTo(c0, "new scroll requested") ELSE c0
              threshold == IF options.threshold = None
                           THEN c.defaultHeight ELSE options.threshold[1]
              maxIterations == IF options.maxIterations = None
                               THEN DefaultMaxIterations ELSE options.maxIterations[1]
              targetTop == At(c.positions, i2).top
              ctx == [sid |-> sid, targetIndex |-> i2, lastTop |-> targetTop,
                      iterations |-> 0, maxIterations |-> maxIterations,
                      threshold |-> threshold, status |-> "idle",
                      pendingHeightUpdate |-> FALSE]
          IN _doScroll([c1 EXCEPT !.scrollToCtx = ctx], targetTop, ret)

\* A scrollToIndex that sends an index past the end to the first row
scrollToIndex_pastEndToFirst(c, index, options, ret) ==
  LET i1 == IF index < 0 THEN 0 ELSE index
      i2 == IF i1 >= c.total THEN Min(0, c.total - 1) ELSE i1
      sid == c.nextSid
      c0 == [c EXCEPT !.nextSid = @ + 1]
  IN IF c.total = 0
     THEN [c0 EXCEPT !.hist[sid].completes = @ + 1,
                     !.events = Append(@, Ev("onComplete", sid, 0, 0, ""))]
     ELSE LET c1 == IF c0.scrollToCtx # NoCtx
                    THEN _abortScrollTo(c0, "new scroll requested") ELSE c0
              threshold == IF options.threshold = None
                           THEN c.defaultHeight ELSE options.threshold[1]
              maxIterations == IF options.maxIterations = None
                               THEN DefaultMaxIterations ELSE options.maxIterations[1]
              targetTop == At(c.positions, i2).top
              ctx == [sid |-> sid, targetIndex |-> i2, lastTop |-> targetTop,
                      iterations |-> 0, maxIterations |-> maxIterations,
                      threshold |-> threshold, status |-> "idle",
                      pendingHeightUpdate |-> FALSE]
          IN _doScroll([c1 EXCEPT !.scrollToCtx = ctx], targetTop, ret)

\* scrollToIndex(index, callbacks, options): the callbacks object and the
\* context created for it are identified by c.nextSid
scrollToIndex(c, index, options, ret) ==
  LET i1 == IF index < 0 THEN 0 ELSE index
      i2 == IF i1 >= c.total THEN Max(0, c.total - 1) ELSE i1
      sid == c.nextSid
      c0 == [c EXCEPT !.nextSid = @ + 1]
  IN IF c.total = 0
     THEN [c0 EXCEPT !.hist[sid].completes = @ + 1,
                     !.events = Append(@, Ev("onComplete", sid, 0, 0, "")),
                     !.seen = Append(@, Seen("onComplete", sid, c0))]
     ELSE LET c1 == IF c0.scrollToCtx # NoCtx
                    THEN _abortScrollTo(c0, "new scroll requested") ELSE c0
              threshold == IF options.threshold = None
                           THEN c.defaultHeight ELSE options.threshold[1]
              maxIterations == IF options.maxIterations = None
                               THEN DefaultMaxIterations ELSE options.maxIterations[1]
              targetTop == At(c.positions, i2).top
              ctx == [sid |-> sid, targetIndex |-> i2, lastTop |-> targetTop,
                      iterations |-> 0, maxIterations |-> maxIterations,
                      threshold |-> threshold, status |-> "idle",
                      pendingHeightUpdate |-> FALSE]
          IN _doScroll([c1 EXCEPT !.scrollToCtx = ctx], targetTop, ret)

\* A deferred microtask that never notifies
deferredNotify_dropped(c, task, ret) == c

\* The microtask queued by _doScroll after a synchronous onScroll
deferredNotify(c, task, ret) ==
  IF c.scrollToCtx.sid = task.sid /\ c.scrollToCtx.status = "scrolling"
  THEN notifyScrollComplete(c, ret) ELSE c

\* A then-handler that notifies without comparing the context
onScrollResolved_unchecked(c, task, ret) == notifyScrollComplete(c, ret)

\* result.then(...) of _doScroll
onScrollResolved(c, task, ret) ==
  IF c.scrollToCtx.sid = task.sid THEN notifyScrollComplete(c, ret) ELSE c

\* A catch-handler that treats a failed scroll as a completed one
onScrollRejected_asResolved(c, task) ==
  IF c.scrollToCtx.sid = task.sid THEN notifyScrollComplete(c, "void") ELSE c

\* result.catch(...) of _doScroll
onScrollRejected(c, task) ==
  IF c.scrollToCtx.sid = task.sid THEN _abortScrollTo(c, "scroll failed") ELSE c

\* ------------------------------------------------------------------------
\* Height update
\* ------------------------------------------------------------------------

\* validUpdates.sort((a, b) => a.index - b.index): a stable sort
RECURSIVE InsertByIndex(_, _)
InsertByIndex(sorted, u) ==
  IF sorted = <<>> THEN <<u>>
  ELSE IF sorted[Len(sorted)].index <= u.index THEN Append(sorted, u)
  ELSE Append(InsertByIndex(SubSeq(sorted, 1, Len(sorted) - 1), u), sorted[Len(sorted)])

RECURSIVE SortByIndex(_)
SortByIndex(us) ==
  IF us = <<>> THEN <<>>
  ELSE InsertByIndex(SortByIndex(SubSeq(us, 1, Len(us) - 1)), us[Len(us)])

\* A loop that compensates every changed row starting at or above the scroll
\* position, also one that reaches into the viewport
RECURSIVE UpdateLoop_byTop(_, _, _, _)
UpdateLoop_byTop(acc, validUpdates, k, currentScrollTop) ==
  IF k > Len(validUpdates) THEN acc
  ELSE LET index == validUpdates[k].index
           height == validUpdates[k].height
           item == At(acc.positions, index)
           oldHeight == item.height
           diff == height - oldHeight
           next ==
             IF diff # 0
             THEN [positions |-> [acc.positions EXCEPT ![index + 1].height = height],
                   scrollCorrection |->
                     IF item.top <= currentScrollTop
                     THEN acc.scrollCorrection + diff ELSE acc.scrollCorrection,
                   hasHeightChanged |-> TRUE,
                   firstChangedIndex |-> Min(index, acc.firstChangedIndex)]
             ELSE acc
       IN UpdateLoop_byTop(next, validUpdates, k + 1, currentScrollTop)

\* A loop that leaves out the row ending exactly at the scroll position
RECURSIVE UpdateLoop_strictlyAbove(_, _, _, _)
UpdateLoop_strictlyAbove(acc, validUpdates, k, currentScrollTop) ==
  IF k > Len(validUpdates) THEN acc
  ELSE LET index == validUpdates[k].index
           height == validUpdates[k].height
           item == At(acc.positions, index)
           oldHeight == item.height
           diff == height - oldHeight
           next ==
             IF diff # 0
             THEN [positions |-> [acc.positions EXCEPT ![index + 1].height = height],
                   scrollCorrection |->
                     IF item.top + oldHeight < currentScrollTop
                     THEN acc.scrollCorrection + diff ELSE acc.scrollCorrection,
                   hasHeightChanged |-> TRUE,
                   firstChangedIndex |-> Min(index, acc.firstChangedIndex)]
             ELSE acc
       IN UpdateLoop_strictlyAbove(next, validUpdates, k + 1, currentScrollTop)

\* validUpdates.forEach(...): acc holds positions, scrollCorrection,
\* hasHeightChanged and firstChangedIndex
RECURSIVE UpdateLoop(_, _, _, _)
UpdateLoop(acc, validUpdates, k, currentScrollTop) ==
  IF k > Len(validUpdates) THEN acc
  ELSE LET index == validUpdates[k].index
           height == validUpdates[k].height
           item == At(acc.positions, index)
           oldHeight == item.height
           diff == height - oldHeight
           next ==
             IF diff # 0
             THEN [positions |-> [acc.positions EXCEPT ![index + 1].height = height],
                   scrollCorrection |->
                     IF item.top + oldHeight <= currentScrollTop
                     THEN acc.scrollCorrection + diff ELSE acc.scrollCorrection,
                   hasHeightChanged |-> TRUE,
                   firstChangedIndex |-> Min(index, acc.firstChangedIndex)]
             ELSE acc
       IN UpdateLoop(next, validUpdates, k + 1, currentScrollTop)

\* updateHeights that recalculates and notifies whether or not a height changed
updateHeights_alwaysNotify(c, updates, currentScrollTop, ret) ==
  IF Len(updates) = 0 THEN [c EXCEPT !.ret = [scrollCorrection |-> 0]]
  ELSE
  LET valid == SelectSeq(updates, LAMBDA u : u.index >= 0 /\ u.index < c.total) IN
  IF Len(valid) = 0 THEN [c EXCEPT !.ret = [scrollCorrection |-> 0]]
  ELSE
  LET validUpdates == SortByIndex(valid)
      acc == UpdateLoop([positions |-> c.positions, scrollCorrection |-> 0,
                         hasHeightChanged |-> FALSE, firstChangedIndex |-> 0],
                        validUpdates, 1, currentScrollTop)
      c1 == [c EXCEPT !.positions = acc.positions,
                      !.ret = [scrollCorrection |-> acc.scrollCorrection]]
      c2 == _notifyHeightChange(_recalculatePositions(c1, acc.firstChangedIndex))
  IN IF c2.scrollToCtx # NoCtx /\ c2.scrollToCtx.status = "scrolling"
     THEN [c2 EXCEPT !.scrollToCtx.pendingHeightUpdate = TRUE]
     ELSE c2

\* updateHeights that moves an out-of-range index to the nearest row instead
\* of dropping the update
updateHeights_clampsIndex(c, updates, currentScrollTop, ret) ==
  IF Len(updates) = 0 \/ c.total = 0 THEN [c EXCEPT !.ret = [scrollCorrection |-> 0]]
  ELSE
  LET valid == [k \in 1..Len(updates) |->
                  [index |-> Max(0, Min(c.total - 1, updates[k].index)),
                   height |-> updates[k].height]]
      validUpdates == SortByIndex(valid)
      acc == UpdateLoop([positions |-> c.positions, scrollCorrection |-> 0,
                         hasHeightChanged |-> FALSE, firstChangedIndex |-> c.total],
                        validUpdates, 1, currentScrollTop)
      c1 == [c EXCEPT !.positions = acc.positions,
                      !.ret = [scrollCorrection |-> acc.scrollCorrection]]
  IN IF acc.hasHeightChanged
     THEN LET c2 == _notifyHeightChange(_recalculatePositions(c1, acc.firstChangedIndex))
          IN IF c2.scrollToCtx # NoCtx /\ c2.scrollToCtx.status = "scrolling"
             THEN [c2 EXCEPT !.scrollToCtx.pendingHeightUpdate = TRUE]
             ELSE c2
     ELSE c1

\* updateHeights that checks convergence at once even while the scroll is
\* still under way
updateHeights_checksWhileScrolling(c, updates, currentScrollTop, ret) ==
  IF Len(updates) = 0 THEN [c EXCEPT !.ret = [scrollCorrection |-> 0]]
  ELSE
  LET valid == SelectSeq(updates, LAMBDA u : u.index >= 0 /\ u.index < c.total) IN
  IF Len(valid) = 0 THEN [c EXCEPT !.ret = [scrollCorrection |-> 0]]
  ELSE
  LET validUpdates == SortByIndex(valid)
      acc == UpdateLoop([positions |-> c.positions, scrollCorrection |-> 0,
                         hasHeightChanged |-> FALSE, firstChangedIndex |-> c.total],
                        validUpdates, 1, currentScrollTop)
      c1 == [c EXCEPT !.positions = acc.positions,
                      !.ret = [scrollCorrection |-> acc.scrollCorrection]]
  IN IF acc.hasHeightChanged
     THEN LET c2 == _notifyHeightChange(_recalculatePositions(c1, acc.firstChangedIndex))
          IN IF c2.scrollToCtx # NoCtx
             THEN _checkScrollToConvergence(
                    [c2 EXCEPT !.scrollToCtx.status = "waiting"], ret)
             ELSE c2
     ELSE c1

\* The loop of a version that takes the first changed row it meets as the
\* lowest changed row
RECURSIVE UpdateLoop_firstSeen(_, _, _, _)
UpdateLoop_firstSeen(acc, validUpdates, k, currentScrollTop) ==
  IF k > Len(validUpdates) THEN acc
  ELSE LET index == validUpdates[k].index
           height == validUpdates[k].height
           item == At(acc.positions, index)
           oldHeight == item.height
           diff == height - oldHeight
           next ==
             IF diff # 0
             THEN [positions |-> [acc.positions EXCEPT ![index + 1].height = height],
                   scrollCorrection |->
                     IF item.top + oldHeight <= currentScrollTop
                     THEN acc.scrollCorrection + diff ELSE acc.scrollCorrection,
                   hasHeightChanged |-> TRUE,
                   firstChangedIndex |-> IF acc.hasHeightChanged
                                         THEN acc.firstChangedIndex ELSE index]
             ELSE acc
       IN UpdateLoop_firstSeen(next, validUpdates, k + 1, currentScrollTop)

\* updateHeights without the sort, relying on the first changed row met being
\* the lowest
updateHeights_unsortedFirstSeen(c, updates, currentScrollTop, ret) ==
  IF Len(updates) = 0 THEN [c EXCEPT !.ret = [scrollCorrection |-> 0]]
  ELSE
  LET validUpdates == SelectSeq(updates, LAMBDA u : u.index >= 0 /\ u.index < c.total) IN
  IF Len(validUpdates) = 0 THEN [c EXCEPT !.ret = [scrollCorrection |-> 0]]
  ELSE
  LET acc == UpdateLoop_firstSeen(
               [positions |-> c.positions, scrollCorrection |-> 0,
                hasHeightChanged |-> FALSE, firstChangedIndex |-> c.total],
               validUpdates, 1, currentScrollTop)
      c1 == [c EXCEPT !.positions = acc.positions,
                      !.ret = [scrollCorrection |-> acc.scrollCorrection]]
  IN IF acc.hasHeightChanged
     THEN LET c2 == _notifyHeightChange(_recalculatePositions(c1, acc.firstChangedIndex))
          IN IF c2.scrollToCtx # NoCtx /\ c2.scrollToCtx.status = "scrolling"
             THEN [c2 EXCEPT !.scrollToCtx.pendingHeightUpdate = TRUE]
             ELSE c2
     ELSE c1

\* An updateHeights that notifies the total height before and after it
\* recalculates the table
updateHeights_notifiesTwice(c, updates, currentScrollTop, ret) ==
  IF Len(updates) = 0 THEN [c EXCEPT !.ret = [scrollCorrection |-> 0]]
  ELSE
  LET valid == SelectSeq(updates, LAMBDA u : u.index >= 0 /\ u.index < c.total) IN
  IF Len(valid) = 0 THEN [c EXCEPT !.ret = [scrollCorrection |-> 0]]
  ELSE
  LET validUpdates == SortByIndex(valid)
      acc == UpdateLoop([positions |-> c.positions, scrollCorrection |-> 0,
                         hasHeightChanged |-> FALSE, firstChangedIndex |-> c.total],
                        validUpdates, 1, currentScrollTop)
      c1 == [c EXCEPT !.positions = acc.positions,
                      !.ret = [scrollCorrection |-> acc.scrollCorrection]]
  IN IF acc.hasHeightChanged
     THEN LET c2 == _notifyHeightChange(
                      _recalculatePositions(_notifyHeightChange(c1),
                                            acc.firstChangedIndex))
          IN IF c2.scrollToCtx # NoCtx
             THEN IF c2.scrollToCtx.status = "scrolling"
                  THEN [c2 EXCEPT !.scrollToCtx.pendingHeightUpdate = TRUE]
                  ELSE IF c2.scrollToCtx.status = "waiting"
                  THEN _checkScrollToConvergence(c2, ret)
                  ELSE c2
             ELSE c2
     ELSE c1

\* updateHeights(updates, currentScrollTop)
updateHeights(c, updates, currentScrollTop, ret) ==
  IF Len(updates) = 0 THEN [c EXCEPT !.ret = [scrollCorrection |-> 0]]
  ELSE
  LET valid == SelectSeq(updates, LAMBDA u : u.index >= 0 /\ u.index < c.total) IN
  IF Len(valid) = 0 THEN [c EXCEPT !.ret = [scrollCorrection |-> 0]]
  ELSE
  LET validUpdates == SortByIndex(valid)
      acc == UpdateLoop([positions |-> c.positions, scrollCorrection |-> 0,
                         hasHeightChanged |-> FALSE, firstChangedIndex |-> c.total],
                        validUpdates, 1, currentScrollTop)
      c1 == [c EXCEPT !.positions = acc.positions,
                      !.ret = [scrollCorrection |-> acc.scrollCorrection]]
  IN IF acc.hasHeightChanged
     THEN LET c2 == _notifyHeightChange(_recalculatePositions(c1, acc.firstChangedIndex))
          IN IF c2.scrollToCtx # NoCtx
             THEN IF c2.scrollToCtx.status = "scrolling"
                  THEN [c2 EXCEPT !.scrollToCtx.pendingHeightUpdate = TRUE]
                  ELSE IF c2.scrollToCtx.status = "waiting"
                  THEN _checkScrollToConvergence(c2, ret)
                  ELSE c2
             ELSE c2
     ELSE c1

\* ------------------------------------------------------------------------
\* Row count
\* ------------------------------------------------------------------------

\* A setTotal that keeps a session whose target is the first removed row
setTotal_keepsFirstRemoved(c, n) ==
  LET newTotal == IF n < 0 THEN 0 ELSE n IN
  IF newTotal = c.total THEN c
  ELSE
  LET c1 == IF c.scrollToCtx # NoCtx /\ c.scrollToCtx.targetIndex > newTotal
            THEN _abortScrollTo(c, "target index out of range after setTotal")
            ELSE c
      oldTotal == c.total
      lastBottom == IF oldTotal > 0 /\ Len(c.positions) > 0
                    THEN At(c.positions, oldTotal - 1).bottom ELSE 0
      grown == [k \in 1..newTotal |->
                  IF k <= oldTotal THEN c.positions[k]
                  ELSE ItemPosition(k - 1, c.defaultHeight,
                                    lastBottom + (k - 1 - oldTotal) * c.defaultHeight,
                                    lastBottom + (k - oldTotal) * c.defaultHeight)]
      c2 == IF newTotal > oldTotal
            THEN [c1 EXCEPT !.positions = grown]
            ELSE [c1 EXCEPT !.positions = SubSeq(c.positions, 1, newTotal)]
  IN _notifyHeightChange([c2 EXCEPT !.total = newTotal])

\* A setTotal that places appended rows after the estimated, not the
\* measured, end of the table
setTotal_growsFromEstimate(c, n) ==
  LET newTotal == IF n < 0 THEN 0 ELSE n IN
  IF newTotal = c.total THEN c
  ELSE
  LET c1 == IF c.scrollToCtx # NoCtx /\ c.scrollToCtx.targetIndex >= newTotal
            THEN _abortScrollTo(c, "target index out of range after setTotal")
            ELSE c
      oldTotal == c.total
      lastBottom == oldTotal * c.defaultHeight
      grown == [k \in 1..newTotal |->
                  IF k <= oldTotal THEN c.positions[k]
                  ELSE ItemPosition(k - 1, c.defaultHeight,
                                    lastBottom + (k - 1 - oldTotal) * c.defaultHeight,
                                    lastBottom + (k - oldTotal) * c.defaultHeight)]
      c2 == IF newTotal > oldTotal
            THEN [c1 EXCEPT !.positions = grown]
            ELSE [c1 EXCEPT !.positions = SubSeq(c.positions, 1, newTotal)]
  IN _notifyHeightChange([c2 EXCEPT !.total = newTotal])

\* A setTotal that compares the target with the row count it is about to
\* replace
setTotal_comparesOldTotal(c, n) ==
  LET newTotal == IF n < 0 THEN 0 ELSE n IN
  IF newTotal = c.total THEN c
  ELSE
  LET c1 == IF c.scrollToCtx # NoCtx /\ c.scrollToCtx.targetIndex >= c.total
            THEN _abortScrollTo(c, "target index out of range after setTotal")
            ELSE c
      oldTotal == c.total
      lastBottom == IF oldTotal > 0 /\ Len(c.positions) > 0
                    THEN At(c.positions, oldTotal - 1).bottom ELSE 0
      grown == [k \in 1..newTotal |->
                  IF k <= oldTotal THEN c.positions[k]
                  ELSE ItemPosition(k - 1, c.defaultHeight,
                                    lastBottom + (k - 1 - oldTotal) * c.defaultHeight,
                                    lastBottom + (k - oldTotal) * c.defaultHeight)]
      c2 == IF newTotal > oldTotal
            THEN [c1 EXCEPT !.positions = grown]
            ELSE [c1 EXCEPT !.positions = SubSeq(c.positions, 1, newTotal)]
  IN _notifyHeightChange([c2 EXCEPT !.total = newTotal])

\* setTotal(newTotal)
setTotal(c, n) ==
  LET newTotal == IF n < 0 THEN 0 ELSE n IN
  IF newTotal = c.total THEN c
  ELSE
  LET c1 == IF c.scrollToCtx # NoCtx /\ c.scrollToCtx.targetIndex >= newTotal
            THEN _abortScrollTo(c, "target index out of range after setTotal")
            ELSE c
      oldTotal == c.total
      lastBottom == IF oldTotal > 0 /\ Len(c.positions) > 0
                    THEN At(c.positions, oldTotal - 1).bottom ELSE 0
      grown == [k \in 1..newTotal |->
                  IF k <= oldTotal THEN c.positions[k]
                  ELSE ItemPosition(k - 1, c.defaultHeight,
                                    lastBottom + (k - 1 - oldTotal) * c.defaultHeight,
                                    lastBottom + (k - oldTotal) * c.defaultHeight)]
      c2 == IF newTotal > oldTotal
            THEN [c1 EXCEPT !.positions = grown]
            ELSE [c1 EXCEPT !.positions = SubSeq(c.positions, 1, newTotal)]
  IN _notifyHeightChange([c2 EXCEPT !.total = newTotal])

\* getTotal()
getTotal(c) == c.total

\* A reset that rebuilds the table and leaves a running session alone
reset_noAbort(c, newTotal) ==
  LET c2 == IF newTotal # None
            THEN [c EXCEPT !.total = IF newTotal[1] < 0 THEN 0 ELSE newTotal[1]]
            ELSE c
  IN _initPositions(c2)

\* reset(newTotal?)
reset(c, newTotal) ==
  LET c1 == IF c.scrollToCtx # NoCtx THEN _abortScrollTo(c, "reset called") ELSE c
      c2 == IF newTotal # None
            THEN [c1 EXCEPT !.total = IF newTotal[1] < 0 THEN 0 ELSE newTotal[1]]
            ELSE c1
  IN _initPositions(c2)

\* getDefaultHeight()
getDefaultHeight(c) == c.defaultHeight

\* ------------------------------------------------------------------------
\* The state machine
\* ------------------------------------------------------------------------

NoRet == [void |-> TRUE]
NoArgs == [none |-> TRUE]
NoBefore == [none |-> TRUE]

\* The object before a call: its fields, no callback invoked yet
This ==
  [total |-> total, defaultHeight |-> defaultHeight, buffer |-> buffer,
   positions |-> positions, scrollToCtx |-> scrollToCtx, tasks |-> tasks,
   nextSid |-> nextSid, hist |-> hist, notified |-> notified,
   events |-> <<>>, seen |-> <<>>, ret |-> NoRet]

\* The object after a call becomes the state; the call is recorded in last
Commit(c, op, args, before) ==
  /\ Len(c.tasks) <= MaxTasks
  /\ total' = c.total
  /\ defaultHeight' = c.defaultHeight
  /\ buffer' = c.buffer
  /\ positions' = c.positions
  /\ scrollToCtx' = c.scrollToCtx
  /\ tasks' = c.tasks
  /\ nextSid' = c.nextSid
  /\ hist' = c.hist
  /\ notified' = c.notified
  /\ last' = [op |-> op, args |-> args, ret |-> c.ret, events |-> c.events,
              seen |-> c.seen, before |-> before]

\* new VirtualCore(config): config.buffer ?? 5
Constructed(t, b) ==
  _initPositions(
    [total |-> t, defaultHeight |-> DefaultHeight,
     buffer |-> IF b = None THEN DefaultBuffer ELSE b[1],
     positions |-> <<>>, scrollToCtx |-> NoCtx, tasks |-> <<>>,
     nextSid |-> 1, hist |-> [sid \in 1..MaxSessions |-> NoHist],
     notified |-> 0, events |-> <<>>, seen |-> <<>>, ret |-> NoRet])

Start(c, op) ==
  /\ total = c.total
  /\ defaultHeight = c.defaultHeight
  /\ buffer = c.buffer
  /\ positions = c.positions
  /\ scrollToCtx = c.scrollToCtx
  /\ tasks = c.tasks
  /\ nextSid = c.nextSid
  /\ hist = c.hist
  /\ notified = c.notified
  /\ last = [op |-> op, args |-> NoArgs, ret |-> NoRet, events |-> c.events,
             seen |-> c.seen, before |-> NoBefore]

\* ------------------------------------------------------------------------
\* Spec: every operation of the core, called by the host in any order, and
\* the completions the event loop delivers
\* ------------------------------------------------------------------------

Totals == -1..MaxTotal
Indices == -1..MaxTotal
Heights == 1..MaxHeight
ScrollTops == 0..MaxScrollTop
OnScrollReturns == {"void", "promise"}
Options == [threshold : {None, Some(0)}, maxIterations : {Some(1), Some(2)}]
HeightUpdate == [index : Indices, height : Heights]
\* no update, one update, or two updates given in descending row order
Batches ==
  {<<>>} \cup {<<u>> : u \in HeightUpdate}
         \cup {<<u, v>> : u \in {w \in HeightUpdate : w.index = 1},
                          v \in {w \in HeightUpdate : w.index = 0}}

Init == \E t \in 0..MaxTotal : Start(Constructed(t, None), "constructor")

SetTotal ==
  \E n \in Totals : Commit(setTotal(This, n), "setTotal", NoArgs, NoBefore)

Reset ==
  \E n \in {None} \cup {Some(t) : t \in Totals} :
    Commit(reset(This, n), "reset", NoArgs, NoBefore)

UpdateHeights ==
  \E us \in Batches, s \in ScrollTops, r \in OnScrollReturns :
    \* onScroll is reached from updateHeights only through a waiting session
    /\ r = "void" \/ scrollToCtx.status = "waiting"
    /\ Commit(updateHeights(This, us, s, r), "updateHeights", NoArgs, NoBefore)

ScrollToIndex ==
  \E i \in Indices, o \in Options, r \in OnScrollReturns :
    /\ nextSid <= MaxSessions
    /\ Commit(scrollToIndex(This, i, o, r), "scrollToIndex", NoArgs, NoBefore)

AbortScrollTo ==
  Commit(abortScrollTo(This), "abortScrollTo", NoArgs, NoBefore)

NotifyScrollComplete ==
  \E r \in OnScrollReturns :
    Commit(notifyScrollComplete(This, r), "notifyScrollComplete", NoArgs, NoBefore)

Without(q, k) == SubSeq(q, 1, k - 1) \o SubSeq(q, k + 1, Len(q))

\* The event loop runs the oldest queued microtask
RunMicrotask ==
  \E k \in 1..Len(tasks), r \in OnScrollReturns :
    /\ tasks[k].kind = "microtask"
    /\ \A j \in 1..(k - 1) : tasks[j].kind # "microtask"
    /\ Commit(deferredNotify([This EXCEPT !.tasks = Without(@, k)], tasks[k], r),
              "microtask", NoArgs, NoBefore)

\* The host resolves a promise that onScroll returned
ResolvePromise ==
  \E k \in 1..Len(tasks), r \in OnScrollReturns :
    /\ tasks[k].kind = "promise"
    /\ Commit(onScrollResolved([This EXCEPT !.tasks = Without(@, k)], tasks[k], r),
              "resolve", NoArgs, NoBefore)

\* The host rejects a promise that onScroll returned
RejectPromise ==
  \E k \in 1..Len(tasks) :
    /\ tasks[k].kind = "promise"
    /\ Commit(onScrollRejected([This EXCEPT !.tasks = Without(@, k)], tasks[k]),
              "reject", NoArgs, NoBefore)

Next ==
  \/ SetTotal
  \/ Reset
  \/ UpdateHeights
  \/ ScrollToIndex
  \/ AbortScrollTo
  \/ NotifyScrollComplete
  \/ RunMicrotask
  \/ ResolvePromise
  \/ RejectPromise

Spec == Init /\ [][Next]_vars

\* ------------------------------------------------------------------------
\* SpecFair: one scrollToIndex call among all the other operations; the event
\* loop runs every queued microtask and the host settles every promise its
\* onScroll returned
\* ------------------------------------------------------------------------

FirstScrollToIndex ==
  \E i \in Indices, o \in Options, r \in OnScrollReturns :
    /\ nextSid = 1
    /\ Commit(scrollToIndex(This, i, o, r), "scrollToIndex", NoArgs, NoBefore)

NextFair ==
  \/ SetTotal
  \/ Reset
  \/ UpdateHeights
  \/ FirstScrollToIndex
  \/ AbortScrollTo
  \/ NotifyScrollComplete
  \/ RunMicrotask
  \/ ResolvePromise
  \/ RejectPromise

SpecFair ==
  /\ Init
  /\ [][NextFair]_vars
  /\ WF_vars(RunMicrotask)
  /\ WF_vars(ResolvePromise \/ RejectPromise)

\* ------------------------------------------------------------------------
\* SpecLoop: the same operations around a single scrollToIndex call, whose
\* options may leave maxIterations to its default
\* ------------------------------------------------------------------------

LoopOptions == [threshold : {None, Some(0)}, maxIterations : {None, Some(1), Some(2)}]

LoopScrollToIndex ==
  \E i \in Indices, o \in LoopOptions, r \in OnScrollReturns :
    /\ nextSid = 1
    /\ Commit(scrollToIndex(This, i, o, r), "scrollToIndex", NoArgs, NoBefore)

NextLoop ==
  \/ SetTotal
  \/ Reset
  \/ UpdateHeights
  \/ LoopScrollToIndex
  \/ AbortScrollTo
  \/ NotifyScrollComplete
  \/ RunMicrotask
  \/ ResolvePromise
  \/ RejectPromise

SpecLoop == Init /\ [][NextLoop]_vars

\* ------------------------------------------------------------------------
\* One call on any table: the table is built by the constructor and one
\* measurement of every row, then a single operation is applied; last keeps
\* its arguments, its result and the table before the call
\* ------------------------------------------------------------------------

TableHeights == 0..MaxHeight
TableIndices == -1..MaxRows
TableUpdate == [index : TableIndices, height : TableHeights]

RECURSIVE SeqsUpTo(_, _)
SeqsUpTo(S, n) ==
  IF n = 0 THEN {<<>>}
  ELSE LET shorter == SeqsUpTo(S, n - 1)
       IN shorter \cup {Append(q, x) : q \in shorter, x \in S}

TableBatches == SeqsUpTo(TableUpdate, MaxBatch)

\* The table of t rows with the measured heights hs
Measured(t, b, hs) ==
  LET c == updateHeights(Constructed(t, b),
                         [k \in 1..t |-> [index |-> k - 1, height |-> hs[k]]],
                         0, "void")
  IN [c EXCEPT !.events = <<>>, !.seen = <<>>, !.ret = NoRet]

\* The same table with a scroll-to session under way to its last row
MeasuredScrolling(t, b, hs) ==
  LET c == scrollToIndex(Measured(t, b, hs), t - 1,
                         [threshold |-> None, maxIterations |-> None], "promise")
  IN [c EXCEPT !.events = <<>>, !.seen = <<>>, !.ret = NoRet]

TableBefore == [total |-> total, positions |-> positions, scrollToCtx |-> scrollToCtx]

InitTable ==
  \E t \in 0..MaxRows :
    \E hs \in [1..t -> TableHeights], scrolling \in BOOLEAN :
      Start(IF scrolling /\ t > 0
            THEN MeasuredScrolling(t, None, hs) ELSE Measured(t, None, hs),
            "measured")

TableSetTotal ==
  \E n \in -1..MaxRows :
    /\ last.op = "measured"
    /\ Commit(setTotal(This, n), "setTotal", [newTotal |-> n], TableBefore)

TableReset ==
  \E n \in {None} \cup {Some(t) : t \in -1..MaxRows} :
    /\ last.op = "measured"
    /\ Commit(reset(This, n), "reset", [newTotal |-> n], TableBefore)

TableUpdateHeights ==
  \E us \in TableBatches, s \in 0..MaxRows :
    /\ last.op = "measured"
    /\ Commit(updateHeights(This, us, s, "void"), "updateHeights",
              [updates |-> us, currentScrollTop |-> s], TableBefore)

NextTable ==
  \/ TableSetTotal
  \/ TableReset
  \/ TableUpdateHeights

SpecTable == InitTable /\ [][NextTable]_vars

\* ------------------------------------------------------------------------
\* One query on any table, for the buffers 0, 1 and the default
\* ------------------------------------------------------------------------

Buffers == {None, Some(0), Some(1)}
QueryScrollTops == -1..(MaxRows + 1)

InitQuery ==
  \E t \in 0..MaxRows, b \in Buffers :
    \E hs \in [1..t -> TableHeights], scrolling \in BOOLEAN :
      Start(IF scrolling /\ t > 0
            THEN MeasuredScrolling(t, b, hs) ELSE Measured(t, b, hs),
            "measured")

GetRenderRange ==
  \E s \in QueryScrollTops, v \in 0..MaxView :
    /\ last.op = "measured"
    /\ Commit([This EXCEPT !.ret = getRenderRange(This, s, v)], "getRenderRange",
              [scrollTop |-> s, viewHeight |-> v], TableBefore)

GetTopByIndex ==
  \E i \in TableIndices :
    /\ last.op = "measured"
    /\ Commit([This EXCEPT !.ret = [value |-> getTopByIndex(This, i)]],
              "getTopByIndex", [index |-> i], TableBefore)

GetItemPosition ==
  \E i \in TableIndices :
    /\ last.op = "measured"
    /\ Commit([This EXCEPT !.ret = getItemPosition(This, i)],
              "getItemPosition", [index |-> i], TableBefore)

GetTotalHeight ==
  /\ last.op = "measured"
  /\ Commit([This EXCEPT !.ret = [value |-> getTotalHeight(This)]],
            "getTotalHeight", NoArgs, TableBefore)

GetTotal ==
  /\ last.op = "measured"
  /\ Commit([This EXCEPT !.ret = [value |-> getTotal(This)]],
            "getTotal", NoArgs, TableBefore)

GetDefaultHeight ==
  /\ last.op = "measured"
  /\ Commit([This EXCEPT !.ret = [value |-> getDefaultHeight(This)]],
            "getDefaultHeight", NoArgs, TableBefore)

IsScrolling ==
  /\ last.op = "measured"
  /\ Commit([This EXCEPT !.ret = [value |-> isScrolling(This)]],
            "isScrolling", NoArgs, TableBefore)

\* The caller changes the height of the record getItemPosition returned
WriteReturned ==
  \E h \in TableHeights :
    /\ last.op = "getItemPosition"
    /\ last.ret # NoItem
    /\ Commit(assignHeight(This, getItemPositionObject(This, last.args.index), h),
              "writeReturned", [index |-> last.args.index, height |-> h],
              TableBefore)

NextQuery ==
  \/ GetRenderRange
  \/ GetTopByIndex
  \/ GetItemPosition
  \/ GetTotalHeight
  \/ GetTotal
  \/ GetDefaultHeight
  \/ IsScrolling
  \/ WriteReturned

SpecQuery == InitQuery /\ [][NextQuery]_vars

\* ------------------------------------------------------------------------
\* Properties
\* ------------------------------------------------------------------------

RECURSIVE SumHeights(_, _)
SumHeights(pos, k) == IF k = 0 THEN 0 ELSE pos[k].height + SumHeights(pos, k - 1)

\* C1: the table has exactly total rows, row 0 starts at 0, every row ends at
\* its top plus its height, and every later row starts where the row before
\* it ends.
C1_TableConsistency ==
  /\ Len(positions) = total
  /\ total > 0 => At(positions, 0).top = 0
  /\ \A i \in 0..(total - 1) :
       At(positions, i).bottom = At(positions, i).top + At(positions, i).height
  /\ \A i \in 1..(total - 1) :
       At(positions, i).top = At(positions, i - 1).bottom

\* A grown table whose first row was measured, reached while a session runs
C1_Witness ==
  /\ last.op = "setTotal"
  /\ total = 2
  /\ At(positions, 0).height = 2
  /\ At(positions, 1).top = 2
  /\ scrollToCtx # NoCtx

\* C2: getTotalHeight() is the bottom of the last row (0 for an empty list)
\* and the sum of the heights of all rows.
C2_TotalHeight ==
  /\ getTotalHeight(This) =
       IF total > 0 THEN getItemPosition(This, total - 1).bottom ELSE 0
  /\ getTotalHeight(This) = SumHeights(positions, Len(positions))

\* A table of two measured rows whose heights are not the default
C2_Witness ==
  /\ last.op = "updateHeights"
  /\ total = 2
  /\ At(positions, 0).height = 2
  /\ At(positions, 1).height = 2
  /\ getTotalHeight(This) = 4

\* C3: the callbacks of one scrollToIndex call receive at most one terminal
\* call, onComplete or onAbort, never both and never twice.
C3_OneTerminalOutcome ==
  \A sid \in 1..MaxSessions : hist[sid].completes + hist[sid].aborts <= 1

\* Both sessions have ended, the first by an abort, and a completion that was
\* still in flight has been delivered afterwards
C3_Witness ==
  /\ hist[1].aborts = 1
  /\ hist[2].scrolls = 2
  /\ hist[2].completes = 1
  /\ last.op \in {"microtask", "resolve", "reject"}
  /\ last.events = <<>>

\* The sessions that have been started and have received no terminal callback
LiveSessions ==
  {sid \in 1..MaxSessions :
     hist[sid].scrolls > 0 /\ hist[sid].completes + hist[sid].aborts = 0}

Ended(sid) == hist[sid].completes + hist[sid].aborts > 0

\* C4: at most one session is live at any time; a scrollToIndex call made
\* while a session is active invokes the old session's onAbort("new scroll
\* requested") and only then the new session's first onScroll; once a session
\* has ended none of its callbacks is invoked again.
C4_SingleSessionOrderedSupersession ==
  /\ [](/\ Cardinality(LiveSessions) <= 1
        /\ LiveSessions = IF scrollToCtx = NoCtx THEN {} ELSE {scrollToCtx.sid})
  /\ [][/\ (scrollToCtx # NoCtx /\ last'.op = "scrollToIndex" /\ nextSid' # nextSid) =>
             /\ total > 0
             /\ last'.events =
                  << Ev("onAbort", scrollToCtx.sid, 0, 0, "new scroll requested"),
                     Ev("onScroll", nextSid, At(positions, scrollToCtx'.targetIndex).top,
                        0, "") >>
             /\ scrollToCtx'.sid = nextSid
             /\ hist'[scrollToCtx.sid].aborts = 1
        /\ \A sid \in 1..MaxSessions :
             Ended(sid) =>
               /\ hist'[sid] = hist[sid]
               /\ last' # last => \A k \in 1..Len(last'.events) : last'.events[k].sid # sid
       ]_vars

\* A second scrollToIndex has superseded the first session
C4_Witness ==
  /\ last.op = "scrollToIndex"
  /\ Len(last.events) = 2
  /\ last.events[1] = Ev("onAbort", 1, 0, 0, "new scroll requested")
  /\ last.events[2].cb = "onScroll"
  /\ last.events[2].sid = 2
  /\ scrollToCtx.sid = 2

\* The top of the active session's target row, and its distance from lastTop
TargetTop == At(positions, scrollToCtx.targetIndex).top
Drift == Abs(TargetTop - scrollToCtx.lastTop)

\* The object after each completion that can reach the active session: an
\* explicit notifyScrollComplete(), the session's deferred microtask, the
\* resolution of a promise one of its onScroll calls returned
CompletionOutcomes ==
  {notifyScrollComplete(This, r) : r \in OnScrollReturns}
  \cup UNION {
    { IF tasks[k].kind = "microtask"
      THEN deferredNotify([This EXCEPT !.tasks = Without(@, k)], tasks[k], r)
      ELSE onScrollResolved([This EXCEPT !.tasks = Without(@, k)], tasks[k], r)
      : r \in OnScrollReturns }
    : k \in {j \in 1..Len(tasks) : tasks[j].sid = scrollToCtx.sid} }

\* C9: when the first scroll of a session completes (synchronously deferred,
\* by promise resolution or by notifyScrollComplete) and the target row's top
\* is what it was at scrollToIndex, the session ends with
\* onComplete(target top, 1), after exactly one onScroll and with no onAbort.
C9_OneIterationConvergence ==
  (scrollToCtx # NoCtx /\ scrollToCtx.iterations = 1 /\ TargetTop = scrollToCtx.lastTop) =>
    \A c \in CompletionOutcomes :
      /\ c.scrollToCtx = NoCtx
      /\ c.events = << Ev("onComplete", scrollToCtx.sid, TargetTop, 1, "") >>
      /\ c.hist[scrollToCtx.sid] = [scrolls |-> 1, completes |-> 1, aborts |-> 0]

\* A session aimed at row 1, whose top is 2, has completed at its first
\* completion
C9_Witness ==
  /\ last.op \in {"microtask", "resolve", "notifyScrollComplete"}
  /\ last.events = << Ev("onComplete", 1, 2, 1, "") >>
  /\ hist[1] = [scrolls |-> 1, completes |-> 1, aborts |-> 0]
  /\ total = 2
  /\ At(positions, 1).top = 2

\* C10: a session never makes more than maxIterations scrolls; at a
\* completion that finds the target row's top moved by more than threshold
\* since the scroll was issued, the session scrolls again while fewer than
\* maxIterations scrolls were made, and after the maxIterations-th scroll it
\* is cleared with onAbort("max iterations (M) reached"), having invoked
\* onScroll exactly M times and onComplete never.
C10_NonConvergenceAbort ==
  scrollToCtx # NoCtx =>
    LET ctx == scrollToCtx
        M == ctx.maxIterations
    IN /\ 1 <= ctx.iterations /\ ctx.iterations <= M
       /\ hist[ctx.sid] = [scrolls |-> ctx.iterations, completes |-> 0, aborts |-> 0]
       /\ Drift > ctx.threshold =>
            \A c \in CompletionOutcomes :
              IF ctx.iterations = M
              THEN /\ c.scrollToCtx = NoCtx
                   /\ c.events = << Ev("onAbort", ctx.sid, 0, 0,
                                       "max iterations (" \o ToString(M) \o ") reached") >>
                   /\ c.hist[ctx.sid] = [scrolls |-> M, completes |-> 0, aborts |-> 1]
              ELSE /\ c.scrollToCtx.sid = ctx.sid
                   /\ c.scrollToCtx.iterations = ctx.iterations + 1
                   /\ c.events = << Ev("onScroll", ctx.sid, TargetTop, 0, "") >>
                   /\ c.hist[ctx.sid] =
                        [scrolls |-> ctx.iterations + 1, completes |-> 0, aborts |-> 0]

\* A session started without a maxIterations option has been aborted after
\* ten scrolls
C10_Witness ==
  /\ last.op \in {"microtask", "resolve", "notifyScrollComplete"}
  /\ last.events = << Ev("onAbort", 1, 0, 0, "max iterations (10) reached") >>
  /\ hist[1] = [scrolls |-> 10, completes |-> 0, aborts |-> 1]
  /\ scrollToCtx = NoCtx

\* The updates of a batch that name a row of a table of tot rows
IsValid(u, tot) == u.index >= 0 /\ u.index < tot

\* No row is named by two valid updates of the batch
DistinctValid(us, tot) ==
  \A j, k \in 1..Len(us) :
    (j # k /\ IsValid(us[j], tot) /\ IsValid(us[k], tot)) => us[j].index # us[k].index

\* Sum of (new height - old height) over the updates us[1..k] whose row lies
\* entirely above scroll position s in the table pos
RECURSIVE AnchorSum(_, _, _, _, _)
AnchorSum(pos, tot, us, k, s) ==
  IF k = 0 THEN 0
  ELSE AnchorSum(pos, tot, us, k - 1, s)
       + IF IsValid(us[k], tot) /\ At(pos, us[k].index).bottom <= s
         THEN us[k].height - At(pos, us[k].index).height
         ELSE 0

\* C5: for a batch whose valid updates name pairwise distinct rows,
\* updateHeights(updates, s) returns the sum of (new height - old height) over
\* the updated rows whose bottom before the call is <= s; the other rows
\* contribute nothing.
C5_AnchoringLaw ==
  (last.op = "updateHeights"
     /\ DistinctValid(last.args.updates, last.before.total)) =>
    last.ret.scrollCorrection =
      AnchorSum(last.before.positions, last.before.total, last.args.updates,
                Len(last.args.updates), last.args.currentScrollTop)

\* Two rows were updated: row 0, above the scroll position, shrank by 2 and
\* row 1, which reaches below it, grew; only row 0 is compensated
C5_Witness ==
  /\ last.op = "updateHeights"
  /\ last.before.total = 2
  /\ last.args.currentScrollTop = 2
  /\ last.args.updates = << [index |-> 1, height |-> 2], [index |-> 0, height |-> 0] >>
  /\ At(last.before.positions, 0).height = 2
  /\ At(last.before.positions, 1).height = 1
  /\ last.ret.scrollCorrection = -2


\* Every valid update of the batch carries the height the table pos stores
AllStored(pos, tot, us) ==
  \A k \in 1..Len(us) :
    IsValid(us[k], tot) => us[k].height = At(pos, us[k].index).height

\* The call just made returned 0, invoked no callback and left the table and
\* the session as they were
WasNoOp ==
  /\ last.ret.scrollCorrection = 0
  /\ last.events = <<>>
  /\ positions = last.before.positions
  /\ scrollToCtx = last.before.scrollToCtx

\* Applying the batch just applied once more, at any scroll position, returns
\* 0 and changes nothing
SecondIsNoOp ==
  \A s \in 0..MaxRows :
    updateHeights(This, last.args.updates, s, "void")
      = [This EXCEPT !.ret = [scrollCorrection |-> 0]]

\* C6 as stated: a batch carrying only stored heights is a no-op, and any
\* batch applied a second time is a no-op. The second half fails for a batch
\* naming one row twice with different heights.
C6_IdempotenceAnyBatch ==
  last.op = "updateHeights" =>
    /\ AllStored(last.before.positions, last.before.total, last.args.updates)
         => WasNoOp
    /\ SecondIsNoOp

\* C6: a batch in which every valid update carries the stored height returns
\* 0, fires no change notification, leaves every position unchanged and does
\* not touch an active session; applying a batch whose valid updates name
\* pairwise distinct rows a second time right after the first has this no-op
\* effect.
C6_Idempotence ==
  last.op = "updateHeights" =>
    /\ AllStored(last.before.positions, last.before.total, last.args.updates)
         => WasNoOp
    /\ DistinctValid(last.args.updates, last.before.total) => SecondIsNoOp

\* A batch of two distinct rows changed heights while a session was scrolling
C6_Witness ==
  /\ last.op = "updateHeights"
  /\ Len(last.args.updates) = 2
  /\ \A k \in 1..2 : IsValid(last.args.updates[k], last.before.total)
  /\ last.args.updates[1].index # last.args.updates[2].index
  /\ last.events # <<>>
  /\ scrollToCtx # NoCtx
  /\ scrollToCtx.pendingHeightUpdate


\* The rows whose pixel span meets [scrollTop, scrollTop + viewHeight]
VisibleRows(scrollTop, viewHeight) ==
  {i \in 0..(total - 1) :
     /\ At(positions, i).bottom > scrollTop
     /\ At(positions, i).top <= scrollTop + viewHeight}

PositiveHeights == \A i \in 0..(total - 1) : At(positions, i).height > 0

SetMin(S) == CHOOSE x \in S : \A y \in S : x <= y
SetMax(S) == CHOOSE x \in S : \A y \in S : x >= y

\* C7: for total > 0, positive row heights, scrollTop >= 0 and viewHeight >= 0
\* the range returned by getRenderRange contains every row whose bottom is
\* > scrollTop and whose top is <= scrollTop + viewHeight, extends at most
\* buffer rows beyond the first and the last such row, and its offset is the
\* top of its first row.
C7_RenderRangeCoverage ==
  (/\ last.op = "getRenderRange"
   /\ total > 0
   /\ PositiveHeights
   /\ last.args.scrollTop >= 0
   /\ last.args.viewHeight >= 0) =>
    LET r == last.ret
        vis == VisibleRows(last.args.scrollTop, last.args.viewHeight)
    IN /\ \A i \in vis : r.startIndex <= i /\ i <= r.endIndex
       /\ vis # {} => /\ r.startIndex >= SetMin(vis) - buffer
                      /\ r.endIndex <= SetMax(vis) + buffer
       /\ r.startIndex >= 0 /\ r.startIndex < total
       /\ r.offset = At(positions, r.startIndex).top

\* Three rows of heights 1, 2, 1 and buffer 1, asked for [2, 3]: row 1 is the
\* only row in view and the range is all three rows
C7_Witness ==
  /\ last.op = "getRenderRange"
  /\ total = 3
  /\ buffer = 1
  /\ PositiveHeights
  /\ last.args = [scrollTop |-> 2, viewHeight |-> 0]
  /\ VisibleRows(2, 0) = {1}
  /\ last.ret = [startIndex |-> 0, endIndex |-> 2, offset |-> 0, anchorIndex |-> 1]

\* The least index whose bottom is > scrollTop, total when there is none
LinearScan(scrollTop) ==
  LET above == {i \in 0..(total - 1) : At(positions, i).bottom > scrollTop}
  IN IF above = {} THEN total ELSE SetMin(above)

\* C8: for every table with total > 0 and every scrollTop, the anchorIndex
\* returned by getRenderRange is min(total - 1, k), k the least index whose
\* bottom is > scrollTop (total when there is none), also for scrollTop <= 0,
\* scrollTop equal to a row's bottom and rows of height 0.
C8_AnchorIsLinearScan ==
  (last.op = "getRenderRange" /\ total > 0) =>
    last.ret.anchorIndex = Min(total - 1, LinearScan(last.args.scrollTop))

\* The same agreement wherever the scroll position is positive or the first
\* row has a positive height
C8_AnchorIsLinearScanPastTop ==
  (/\ last.op = "getRenderRange"
   /\ total > 0
   /\ last.args.scrollTop > 0 \/ At(positions, 0).height > 0) =>
    last.ret.anchorIndex = Min(total - 1, LinearScan(last.args.scrollTop))

\* A first row of height 0 and scrollTop 0: the search answers 0, the scan 1
C8_Witness ==
  /\ last.op = "getRenderRange"
  /\ total = 2
  /\ At(positions, 0).height = 0
  /\ At(positions, 1).height = 1
  /\ last.args.scrollTop = 0
  /\ last.ret.anchorIndex = 0
  /\ LinearScan(0) = 1


\* C11: every session started by scrollToIndex eventually ends with
\* onComplete or onAbort and is from then on never the active session,
\* provided every queued microtask is run and every promise returned by
\* onScroll is settled, whatever updateHeights calls are interleaved.
C11_SessionTermination ==
  /\ \A sid \in 1..MaxSessions : (hist[sid].scrolls > 0) ~> Ended(sid)
  /\ [](\A sid \in 1..MaxSessions : Ended(sid) => scrollToCtx.sid # sid)
  /\ [][\A sid \in 1..MaxSessions : Ended(sid) => Ended(sid)']_vars

\* The first session needed a second scroll, after a height update moved its
\* target, and then ended; nothing is scrolling
C11_Witness ==
  /\ hist[1].scrolls = 2
  /\ Ended(1)
  /\ ~isScrolling(This)
  /\ tasks = <<>>


\* The calls a sequence of events makes to the callbacks of scrollToIndex
SessionEvents(events) == SelectSeq(events, LAMBDA e : e.cb # "onTotalHeightChange")

\* C12: with a session targeting row t active, setTotal(n) with n # total and
\* n <= t invokes onAbort("target index out of range after setTotal") exactly
\* once and clears the session; with t < n the session stays active, its
\* targetIndex, lastTop, iterations and status unchanged, and none of its
\* callbacks is invoked.
C12_SetTotalInvalidation ==
  scrollToCtx # NoCtx =>
    \A n \in Totals :
      n # total =>
        LET c == setTotal(This, n)
            sid == scrollToCtx.sid
        IN IF n <= scrollToCtx.targetIndex
           THEN /\ c.scrollToCtx = NoCtx
                /\ SessionEvents(c.events) =
                     << Ev("onAbort", sid, 0, 0,
                           "target index out of range after setTotal") >>
                /\ c.hist[sid] = [hist[sid] EXCEPT !.aborts = 1]
           ELSE /\ c.scrollToCtx = scrollToCtx
                /\ SessionEvents(c.events) = <<>>
                /\ c.hist = hist

\* setTotal has just removed the target row of the first session
C12_Witness ==
  /\ last.op = "setTotal"
  /\ total = 1
  /\ SessionEvents(last.events) =
       << Ev("onAbort", 1, 0, 0, "target index out of range after setTotal") >>
  /\ scrollToCtx = NoCtx


\* The updates of a batch that name a row of the table, in their order
ValidOnly(us, tot) == SelectSeq(us, LAMBDA u : IsValid(u, tot))

\* C13: updateHeights with an empty batch, or one whose indices are all < 0
\* or >= total, returns 0, leaves the table and any active session unchanged
\* and invokes no callback at all; in a mixed batch the out-of-range entries
\* have no effect: the call does what it does for the valid entries alone.
C13_OutOfRangeSilent ==
  /\ (last.op = "updateHeights"
        /\ ValidOnly(last.args.updates, last.before.total) = <<>>) => WasNoOp
  /\ last.op = "measured" =>
       \A us \in TableBatches, s \in 0..MaxRows :
         updateHeights(This, us, s, "void")
           = updateHeights(This, ValidOnly(us, total), s, "void")

\* A batch of one update below the table and one for row 0 has been applied
\* while a session was scrolling; row 0 changed
C13_Witness ==
  /\ last.op = "updateHeights"
  /\ last.before.total = 2
  /\ last.args.updates = << [index |-> -1, height |-> 2], [index |-> 0, height |-> 2] >>
  /\ At(last.before.positions, 0).height = 1
  /\ At(positions, 0).height = 2
  /\ scrollToCtx # NoCtx


\* C14: abortScrollTo() with an active session invokes that session's
\* onAbort("manually aborted") exactly once and clears the session; with no
\* active session it invokes no callback and changes nothing, so two
\* consecutive calls produce exactly one onAbort.
C14_AbortIdempotent ==
  LET c1 == abortScrollTo(This)
      c2 == abortScrollTo([c1 EXCEPT !.events = <<>>])
  IN /\ IF scrollToCtx # NoCtx
        THEN /\ c1 = [This EXCEPT
                        !.scrollToCtx = NoCtx,
                        !.hist[scrollToCtx.sid].aborts = 1,
                        !.events = << Ev("onAbort", scrollToCtx.sid, 0, 0,
                                         "manually aborted") >>,
                        !.seen = << [cb |-> "onAbort", sid |-> scrollToCtx.sid,
                                     isScrolling |-> FALSE] >>]
             /\ hist[scrollToCtx.sid].aborts = 0
        ELSE c1 = This
     /\ c2 = [c1 EXCEPT !.events = <<>>]
     /\ ~isScrolling(c2)

\* abortScrollTo() has just ended the second session
C14_Witness ==
  /\ last.op = "abortScrollTo"
  /\ last.events = << Ev("onAbort", 2, 0, 0, "manually aborted") >>
  /\ hist[2].aborts = 1
  /\ ~isScrolling(This)


\* The object after the completion queued as tasks[k] is delivered in each
\* possible way: its microtask runs, or its promise resolves or rejects
Deliveries(k) ==
  LET c == [This EXCEPT !.tasks = Without(@, k)] IN
  IF tasks[k].kind = "microtask"
  THEN {deferredNotify(c, tasks[k], r) : r \in OnScrollReturns}
  ELSE {onScrollResolved(c, tasks[k], r) : r \in OnScrollReturns}
       \cup {onScrollRejected(c, tasks[k])}

\* C15: a completion of an onScroll call of a session that has ended
\* (superseded, aborted or completed), delivered later by a promise
\* resolution, a promise rejection or the deferred microtask, invokes no
\* callback of any session and leaves the current session, if any, exactly as
\* it is.
C15_StaleCompletionsInert ==
  \A k \in 1..Len(tasks) :
    Ended(tasks[k].sid) =>
      \A c \in Deliveries(k) :
        /\ c.events = <<>>
        /\ c.scrollToCtx = scrollToCtx
        /\ c.hist = hist

\* A completion of the first, aborted session has been delivered while the
\* second session is in its first scroll; nothing was invoked
C15_Witness ==
  /\ last.op \in {"microtask", "resolve", "reject"}
  /\ last.events = <<>>
  /\ hist[1].aborts = 1
  /\ scrollToCtx.sid = 2
  /\ scrollToCtx.iterations = 1
  /\ scrollToCtx.status = "scrolling"


\* C16: when a promise returned by onScroll rejects while its session is
\* still the active one, the session is cleared and its
\* onAbort("scroll failed") is invoked exactly once; no onComplete and no
\* further onScroll is invoked for it, then or later.
C16_ScrollFailure ==
  /\ [](\A k \in 1..Len(tasks) :
         (tasks[k].kind = "promise" /\ scrollToCtx # NoCtx
            /\ tasks[k].sid = scrollToCtx.sid) =>
           LET c == onScrollRejected([This EXCEPT !.tasks = Without(@, k)], tasks[k])
               sid == scrollToCtx.sid
           IN /\ c.scrollToCtx = NoCtx
              /\ c.events = << Ev("onAbort", sid, 0, 0, "scroll failed") >>
              /\ c.hist[sid] = [scrolls |-> hist[sid].scrolls, completes |-> 0,
                                aborts |-> 1])
  /\ [][\A sid \in 1..MaxSessions :
          hist[sid].aborts = 1 =>
            /\ hist'[sid] = hist[sid]
            /\ hist[sid].completes = 0
            /\ last' # last =>
                 \A j \in 1..Len(last'.events) : last'.events[j].sid # sid]_vars

\* The promise of the first session's second scroll has been rejected
C16_Witness ==
  /\ last.op = "reject"
  /\ last.events = << Ev("onAbort", 1, 0, 0, "scroll failed") >>
  /\ hist[1] = [scrolls |-> 2, completes |-> 0, aborts |-> 1]
  /\ ~isScrolling(This)


\* C17: an updateHeights call that changes a height while the active
\* session's status is 'scrolling' sets pendingHeightUpdate, invokes none of
\* onScroll, onComplete, onAbort and leaves the session's targetIndex,
\* lastTop, iterations and status unchanged: no convergence check runs in it.
C17_FlaggedWhileScrolling ==
  (scrollToCtx # NoCtx /\ scrollToCtx.status = "scrolling") =>
    \A us \in Batches, s \in ScrollTops, r \in OnScrollReturns :
      LET c == updateHeights(This, us, s, r) IN
      c.positions # positions =>
        /\ c.scrollToCtx = [scrollToCtx EXCEPT !.pendingHeightUpdate = TRUE]
        /\ SessionEvents(c.events) = <<>>
        /\ c.hist = hist
        /\ c.tasks = tasks

\* During the second scroll of the first session a height update has moved
\* the target row; the session is flagged and still scrolling
C17_Witness ==
  /\ last.op = "updateHeights"
  /\ Len(last.events) = 1
  /\ last.events[1].cb = "onTotalHeightChange"
  /\ scrollToCtx.sid = 1
  /\ scrollToCtx.status = "scrolling"
  /\ scrollToCtx.iterations = 2
  /\ scrollToCtx.pendingHeightUpdate
  /\ At(positions, scrollToCtx.targetIndex).top # scrollToCtx.lastTop


\* Between two calls an active session is always in status 'scrolling':
\* 'waiting' lasts only from the assignment in notifyScrollComplete() to the
\* convergence check that follows it in the same call
StatusIsScrolling == scrollToCtx # NoCtx => scrollToCtx.status = "scrolling"


\* C19: whenever total = 0, whether by construction, setTotal or reset,
\* getTotalHeight() returns 0 and getRenderRange(s, v) returns startIndex 0,
\* endIndex -1, offset 0, anchorIndex 0 for every s and v.
C19_EmptyListQueries ==
  total = 0 =>
    /\ getTotalHeight(This) = 0
    /\ \A s \in -1..(MaxScrollTop + 1), v \in 0..MaxView :
         getRenderRange(This, s, v) =
           [startIndex |-> 0, endIndex |-> -1, offset |-> 0, anchorIndex |-> 0]

\* setTotal has just emptied a list that had rows
C19_Witness ==
  /\ last.op = "setTotal"
  /\ total = 0
  /\ positions = <<>>
  /\ last.events = << Ev("onTotalHeightChange", 0, 0, 0, "") >>
  /\ getRenderRange(This, 1, 1).endIndex = -1


\* C20: when total = 0, scrollToIndex(i, callbacks) for any i invokes
\* onComplete(0, 0) exactly once, invokes neither onScroll nor onAbort and
\* creates no session: isScrolling() is false before and after.
C20_ScrollToIndexOnEmpty ==
  (total = 0 /\ nextSid <= MaxSessions) =>
    /\ ~isScrolling(This)
    /\ \A i \in Indices, o \in LoopOptions, r \in OnScrollReturns :
         LET c == scrollToIndex(This, i, o, r) IN
         /\ c.events = << Ev("onComplete", nextSid, 0, 0, "") >>
         /\ c.hist = [hist EXCEPT ![nextSid] = [scrolls |-> 0, completes |-> 1,
                                                aborts |-> 0]]
         /\ ~isScrolling(c)
         /\ c.tasks = tasks

\* scrollToIndex has been called on a list that setTotal or reset emptied
\* after an earlier session
C20_Witness ==
  /\ last.op = "scrollToIndex"
  /\ total = 0
  /\ last.events = << Ev("onComplete", 2, 0, 0, "") >>
  /\ hist[2] = [scrolls |-> 0, completes |-> 1, aborts |-> 0]
  /\ hist[1].scrolls > 0
  /\ ~isScrolling(This)


\* The arguments reset is called with: none, or a new total
ResetArgs == {None} \cup {Some(t) : t \in Totals}

\* C21: reset(n) aborts an active session with onAbort("reset called") and
\* leaves total, every row's height, top and bottom, and the absence of a
\* session exactly as in a core newly constructed with total max(0, n) (the
\* current total when n is omitted) and the same defaultHeight and buffer:
\* every measured height is gone, and onTotalHeightChange fires exactly once.
C21_ResetIsConstruction ==
  \A n \in ResetArgs :
    LET c == reset(This, n)
        t == IF n = None THEN total ELSE Max(0, n[1])
        fresh == Constructed(t, Some(buffer))
        aborted == IF scrollToCtx # NoCtx
                   THEN << Ev("onAbort", scrollToCtx.sid, 0, 0, "reset called") >>
                   ELSE <<>>
    IN /\ c.total = fresh.total
       /\ c.positions = fresh.positions
       /\ c.defaultHeight = fresh.defaultHeight
       /\ c.buffer = fresh.buffer
       /\ c.scrollToCtx = NoCtx
       /\ c.events = aborted \o fresh.events
       /\ fresh.events = << Ev("onTotalHeightChange", 0, t * defaultHeight, 0, "") >>
       /\ \A i \in 0..(t - 1) : At(c.positions, i).height = defaultHeight

\* reset has ended the first session; both rows have the default height again
C21_Witness ==
  /\ last.op = "reset"
  /\ total = 2
  /\ last.events = << Ev("onAbort", 1, 0, 0, "reset called"),
                      Ev("onTotalHeightChange", 0, 2 * DefaultHeight, 0, "") >>
  /\ positions = Constructed(2, None).positions
  /\ ~isScrolling(This)


\* C22: setTotal(n) from total m leaves height, top and bottom of every row
\* i < min(m, n) unchanged; for n > m each appended row i in m..n-1 has the
\* default height and top = (old total height) + (i - m) * defaultHeight; for
\* n < m the rows n..m-1 are dropped, and growing back to m gives them the
\* default height, not the height measured before.
C22_SetTotalPreservesRows ==
  last.op = "setTotal" =>
    LET m == last.before.total
        n == Max(0, last.args.newTotal)
        oldHeight == IF m > 0 THEN At(last.before.positions, m - 1).bottom ELSE 0
    IN /\ total = n
       /\ Len(positions) = n
       /\ \A i \in 0..(Min(m, n) - 1) : At(positions, i) = At(last.before.positions, i)
       /\ \A i \in m..(n - 1) :
            At(positions, i) =
              ItemPosition(i, defaultHeight, oldHeight + (i - m) * defaultHeight,
                           oldHeight + (i - m + 1) * defaultHeight)
       /\ n < m =>
            \A i \in n..(m - 1) :
              At(setTotal(This, m).positions, i).height = defaultHeight

\* setTotal(1) has dropped a row measured at height 2 and kept row 0, also
\* measured at 2; growing back gives the dropped row the default height
C22_Witness ==
  /\ last.op = "setTotal"
  /\ last.before.total = 2
  /\ At(last.before.positions, 0).height = 2
  /\ At(last.before.positions, 1).height = 2
  /\ total = 1
  /\ At(positions, 0).height = 2
  /\ At(setTotal(This, 2).positions, 1) = ItemPosition(1, DefaultHeight, 2, 2 + DefaultHeight)


\* The onTotalHeightChange calls among a sequence of events
HeightNotifications(events) == SelectSeq(events, LAMBDA e : e.cb = "onTotalHeightChange")

\* C23 as stated: every setTotal(n) call invokes onTotalHeightChange exactly
\* once, with the total height after the call, also when n clamped to >= 0 is
\* the current total.
C23_SetTotalAlwaysNotifies ==
  \A n \in Totals :
    LET c == setTotal(This, n) IN
    HeightNotifications(c.events)
      = << Ev("onTotalHeightChange", 0, getTotalHeight(c), 0, "") >>

\* C23: every setTotal(n) call whose n, clamped to >= 0, differs from the
\* current total invokes onTotalHeightChange exactly once, as its last
\* callback, with the total height of the table after the call; a call that
\* leaves the total as it is invokes nothing and changes nothing.
C23_SetTotalNotifiesOnChange ==
  \A n \in Totals :
    LET c == setTotal(This, n) IN
    IF Max(0, n) = total
    THEN c = This
    ELSE /\ HeightNotifications(c.events)
              = << Ev("onTotalHeightChange", 0, getTotalHeight(c), 0, "") >>
         /\ c.events[Len(c.events)].cb = "onTotalHeightChange"
         /\ c.total = Max(0, n)

\* setTotal(2) has appended a default row to one row measured at height 2
C23_Witness ==
  /\ last.op = "setTotal"
  /\ total = 2
  /\ At(positions, 0).height = 2
  /\ last.events = << Ev("onTotalHeightChange", 0, 2 + DefaultHeight, 0, "") >>


\* C24: getTopByIndex(index) returns 0 for index < 0, getTotalHeight() for
\* index >= total and positions[index].top otherwise, also when total = 0.
C24_GetTopByIndexClamped ==
  last.op = "getTopByIndex" =>
    LET index == last.args.index IN
    /\ last.ret.value =
         IF index < 0 THEN 0
         ELSE IF index >= total THEN getTotalHeight(This)
         ELSE At(positions, index).top
    \* the same in terms of the row heights alone
    /\ last.ret.value =
         IF index < 0 THEN 0
         ELSE IF index >= total THEN SumHeights(positions, Len(positions))
         ELSE SumHeights(positions, index)

\* The index just past a table of heights 1 and 2 has been asked for
C24_Witness ==
  /\ last.op = "getTopByIndex"
  /\ total = 2
  /\ At(positions, 0).height = 1
  /\ At(positions, 1).height = 2
  /\ last.args.index = 2
  /\ last.ret.value = 3
  /\ getTotalHeight(This) = 3


QueryOps ==
  {"getTotalHeight", "getRenderRange", "getTopByIndex", "getItemPosition",
   "getTotal", "getDefaultHeight", "isScrolling"}

\* C25: getTotalHeight, getRenderRange, getTopByIndex, getItemPosition,
\* getTotal, getDefaultHeight and isScrolling leave the table, total and the
\* session unchanged and invoke no callback; getItemPosition returns null for
\* index < 0 or index >= total and otherwise a copy of the row, so that a
\* change the caller makes to the returned record changes neither the table
\* nor the answer of a later query.
C25_QueriesHaveNoEffect ==
  /\ last.op \in QueryOps \cup {"writeReturned"} =>
       /\ positions = last.before.positions
       /\ total = last.before.total
       /\ scrollToCtx = last.before.scrollToCtx
       /\ last.events = <<>>
  /\ last.op = "getItemPosition" =>
       last.ret = IF last.args.index < 0 \/ last.args.index >= total
                  THEN NoItem ELSE At(positions, last.args.index)
  /\ last.op = "writeReturned" =>
       /\ getItemPosition(This, last.args.index)
            = At(last.before.positions, last.args.index)
       /\ getTotalHeight(This) = SumHeights(last.before.positions, total)

\* The caller has set the height of a returned record to 0; the row, measured
\* at 2 while a session is scrolling, is as it was
C25_Witness ==
  /\ last.op = "writeReturned"
  /\ last.args.height = 0
  /\ At(positions, last.args.index).height = 2
  /\ isScrolling(This)


\* C26: a session with maxIterations M >= 1 invokes onScroll at most M times
\* and its iteration counter never exceeds M; when its onComplete(finalTop, n)
\* is invoked, n is the number of onScroll calls the session has made and
\* finalTop is the top of the target row in the table at that moment.
C26_IterationBoundAndCount ==
  scrollToCtx # NoCtx =>
    LET sid == scrollToCtx.sid IN
    /\ scrollToCtx.iterations >= 1
    /\ scrollToCtx.iterations <= scrollToCtx.maxIterations
    /\ hist[sid].scrolls = scrollToCtx.iterations
    /\ \A c \in CompletionOutcomes :
         /\ c.hist[sid].scrolls <= scrollToCtx.maxIterations
         /\ c.positions = positions
         /\ \A j \in 1..Len(c.events) :
              c.events[j].cb = "onComplete" =>
                c.events[j] = Ev("onComplete", sid, TargetTop, hist[sid].scrolls, "")

\* The session completed at its second completion, on a target that had moved
\* from 1 to 2 during the first scroll
C26_Witness ==
  /\ last.op \in {"microtask", "resolve", "notifyScrollComplete"}
  /\ last.events = << Ev("onComplete", 1, 2, 2, "") >>
  /\ hist[1] = [scrolls |-> 2, completes |-> 1, aborts |-> 0]
  /\ getTopByIndex(This, 1) = 2


C28_OneOutcomePerCompletion ==
  /\ scrollToCtx # NoCtx =>
       \A c \in CompletionOutcomes :
         LET sid == scrollToCtx.sid IN
         /\ Len(c.events) = 1
         /\ \/ /\ c.events[1].cb = "onComplete"
               /\ c.events[1].sid = sid
               /\ c.scrollToCtx = NoCtx
            \/ /\ c.events[1] =
                    Ev("onAbort", sid, 0, 0,
                       "max iterations (" \o ToString(scrollToCtx.maxIterations)
                       \o ") reached")
               /\ c.scrollToCtx = NoCtx
            \/ /\ c.events[1] = Ev("onScroll", sid, TargetTop, 0, "")
               /\ c.scrollToCtx = [scrollToCtx EXCEPT
                                     !.lastTop = TargetTop,
                                     !.iterations = @ + 1,
                                     !.pendingHeightUpdate = FALSE]
  /\ \A j \in 1..Len(last.events) :
       last.events[j].cb = "onScroll" =>
         /\ j = Len(last.events)
         /\ scrollToCtx # NoCtx
         /\ last.events[j] = Ev("onScroll", scrollToCtx.sid, TargetTop, 0, "")
         /\ scrollToCtx.lastTop = TargetTop

\* A completion has found the target moved from 1 to 2 and scrolled again
C28_Witness ==
  /\ last.op \in {"microtask", "resolve", "notifyScrollComplete"}
  /\ last.events = << Ev("onScroll", 1, 2, 0, "") >>
  /\ scrollToCtx.sid = 1
  /\ scrollToCtx.iterations = 2
  /\ scrollToCtx.lastTop = 2
  /\ scrollToCtx.targetIndex = 1


\* C29: for total > 0, scrollToIndex(i, ...) targets row max(0, min(i,
\* total - 1)) and invokes onScroll exactly once, with that row's current
\* top, before it returns; after it isScrolling() is true and neither
\* onComplete nor onAbort of the new session has been invoked.
C29_ScrollToIndexClampsAndScrolls ==
  (total > 0 /\ nextSid <= MaxSessions) =>
    \A i \in Indices, o \in LoopOptions, r \in OnScrollReturns :
      LET c == scrollToIndex(This, i, o, r)
          t == Max(0, Min(i, total - 1))
      IN /\ isScrolling(c)
         /\ c.scrollToCtx.sid = nextSid
         /\ c.scrollToCtx.targetIndex = t
         /\ SelectSeq(c.events, LAMBDA e : e.sid = nextSid)
              = << Ev("onScroll", nextSid, At(positions, t).top, 0, "") >>
         /\ c.hist[nextSid] = [scrolls |-> 1, completes |-> 0, aborts |-> 0]
         /\ c.positions = positions

\* scrollToIndex has started the first session on the last of two rows, whose
\* top is 2, and has scrolled there
C29_Witness ==
  /\ last.op = "scrollToIndex"
  /\ total = 2
  /\ last.events = << Ev("onScroll", 1, 2, 0, "") >>
  /\ scrollToCtx.targetIndex = 1
  /\ isScrolling(This)
  /\ hist[1] = [scrolls |-> 1, completes |-> 0, aborts |-> 0]


\* The batches of up to MaxPermBatch updates with pairwise distinct indices,
\* in ascending order of index, and the rearrangements of a batch
MaxPermBatch == 3

AscendingBatches ==
  {us \in SeqsUpTo(TableUpdate, MaxPermBatch) :
     \A k \in 1..(Len(us) - 1) : us[k].index < us[k + 1].index}

Rearrangements(us) ==
  LET n == Len(us) IN
  {[k \in 1..n |-> us[f[k]]] :
     f \in {g \in [1..n -> 1..n] : \A a, b \in 1..n : a # b => g[a] # g[b]}}

\* C30: for a batch of updates with pairwise distinct indices, updateHeights
\* returns the same scrollCorrection and produces the same position table for
\* every permutation of the batch.
C30_BatchOrderIndependence ==
  last.op = "measured" =>
    \A us \in AscendingBatches, s \in 0..MaxRows :
      \A p \in Rearrangements(us) :
        LET c == updateHeights(This, us, s, "void")
            d == updateHeights(This, p, s, "void")
        IN /\ d.ret = c.ret
           /\ d.positions = c.positions
           /\ d.events = c.events

\* The batch (row 1, row 0), given in descending order, has been applied to
\* three rows of height 1 at scroll position 2: both rows are compensated
\* and row 2 starts at 4, as for the batch in ascending order
C30_Witness ==
  /\ last.op = "updateHeights"
  /\ last.before.total = 3
  /\ \A i \in 0..2 : At(last.before.positions, i).height = 1
  /\ last.args.updates = << [index |-> 1, height |-> 2], [index |-> 0, height |-> 2] >>
  /\ last.args.currentScrollTop = 2
  /\ last.ret.scrollCorrection = 2
  /\ At(positions, 1).top = 2
  /\ At(positions, 2).top = 4

\* The first row of the table pos whose bottom is > s
AnchorRow(pos, s) ==
  SetMin({i \in 0..(Len(pos) - 1) : At(pos, i).bottom > s})

\* C31: with positive row heights, 0 <= s < getTotalHeight() and a batch of
\* pairwise distinct valid indices, the scrollCorrection of
\* updateHeights(updates, s) is the change in top of the anchor row, the
\* first row whose bottom before the call is > s: that row is as far from
\* s + scrollCorrection after the call as it was from s before.
C31_VisualAnchoring ==
  (/\ last.op = "updateHeights"
   /\ last.before.total > 0
   /\ \A i \in 0..(last.before.total - 1) : At(last.before.positions, i).height > 0
   /\ \A k \in 1..Len(last.args.updates) :
        /\ IsValid(last.args.updates[k], last.before.total)
        /\ last.args.updates[k].height > 0
   /\ DistinctValid(last.args.updates, last.before.total)
   /\ last.args.currentScrollTop
        < At(last.before.positions, last.before.total - 1).bottom) =>
    LET s == last.args.currentScrollTop
        a == AnchorRow(last.before.positions, s)
    IN /\ last.ret.scrollCorrection
            = At(positions, a).top - At(last.before.positions, a).top
       /\ At(positions, a).top - (s + last.ret.scrollCorrection)
            = At(last.before.positions, a).top - s

\* Rows 0 and 1, both ending at or above scroll position 2, have grown from 1
\* to 2; the anchor row 2 has moved from 2 to 4 and the correction is 2
C31_Witness ==
  /\ last.op = "updateHeights"
  /\ last.before.total = 3
  /\ \A i \in 0..2 : At(last.before.positions, i).height = 1
  /\ last.args.updates = << [index |-> 0, height |-> 2], [index |-> 1, height |-> 2] >>
  /\ last.args.currentScrollTop = 2
  /\ AnchorRow(last.before.positions, 2) = 2
  /\ At(positions, 2).top = 4
  /\ last.ret.scrollCorrection = 2

\* C32: for total > 0, any scrollTop (negative, zero or beyond the total
\* height) and viewHeight >= 0, getRenderRange returns
\* 0 <= startIndex <= anchorIndex <= endIndex <= total - 1 and reads
\* this.positions only at indices 0..total-1, although the search itself may
\* answer the one-past-end value total.
C32_RenderRangeInsideTable ==
  (last.op = "getRenderRange" /\ total > 0) =>
    /\ 0 <= last.ret.startIndex
    /\ last.ret.startIndex <= last.ret.anchorIndex
    /\ last.ret.anchorIndex <= last.ret.endIndex
    /\ last.ret.endIndex <= total - 1
    /\ _findStartIndex(This, last.args.scrollTop) \in 0..total
    /\ _findStartIndex(This, last.args.scrollTop + last.args.viewHeight) \in 0..total
    /\ getRenderRangeReads(This, last.args.scrollTop, last.args.viewHeight)
         \subseteq 0..(total - 1)

\* A scrollTop beyond the total height of a three-row table with buffer 0:
\* the search answers total = 3, the range is the last row alone
C32_Witness ==
  /\ last.op = "getRenderRange"
  /\ total = 3
  /\ buffer = 0
  /\ last.args.scrollTop > getTotalHeight(This)
  /\ _findStartIndex(This, last.args.scrollTop) = total
  /\ last.ret.startIndex = 2
  /\ last.ret.anchorIndex = 2
  /\ last.ret.endIndex = 2

\* A negative scrollTop on a non-empty table: the range starts at row 0
C32_WitnessNegative ==
  /\ last.op = "getRenderRange"
  /\ total > 0
  /\ last.args.scrollTop < 0
  /\ last.ret.startIndex = 0
  /\ last.ret.anchorIndex = 0

\* The rows of the table before the call whose height the batch us changes
ChangedRows(pos, tot, us) ==
  {us[k].index : k \in {j \in 1..Len(us) :
     IsValid(us[j], tot) /\ us[j].height # At(pos, us[j].index).height}}

\* The rows the batch us names
ListedRows(tot, us) == {us[k].index : k \in {j \in 1..Len(us) : IsValid(us[j], tot)}}

\* C33: after updateHeights with a batch of pairwise distinct valid indices,
\* each listed row has exactly the given height, every row not listed keeps
\* its height, every row below the smallest index whose height changed keeps
\* its top and bottom, and onTotalHeightChange has fired exactly once if at
\* least one height changed and not at all otherwise.
C33_UpdateEffectAndFrame ==
  (/\ last.op = "updateHeights"
   /\ \A k \in 1..Len(last.args.updates) :
        IsValid(last.args.updates[k], last.before.total)
   /\ DistinctValid(last.args.updates, last.before.total)) =>
    LET us == last.args.updates
        old == last.before.positions
        changed == ChangedRows(old, last.before.total, us)
    IN /\ total = last.before.total
       /\ \A k \in 1..Len(us) : At(positions, us[k].index).height = us[k].height
       /\ \A i \in (0..(total - 1)) \ ListedRows(total, us) :
            At(positions, i).height = At(old, i).height
       /\ \A i \in 0..(total - 1) :
            (\A j \in changed : i < j) =>
              /\ At(positions, i).top = At(old, i).top
              /\ At(positions, i).bottom = At(old, i).bottom
       /\ Len(HeightNotifications(last.events)) = (IF changed = {} THEN 0 ELSE 1)

\* Of three rows of height 1, row 1 is given height 2 and row 2 its own
\* height 1: row 0 is where it was, row 1 has kept its top, one notification
C33_Witness ==
  /\ last.op = "updateHeights"
  /\ last.before.total = 3
  /\ \A i \in 0..2 : At(last.before.positions, i).height = 1
  /\ last.args.updates = << [index |-> 1, height |-> 2], [index |-> 2, height |-> 1] >>
  /\ At(positions, 0) = At(last.before.positions, 0)
  /\ At(positions, 1).height = 2
  /\ At(positions, 2).top = 3
  /\ Len(HeightNotifications(last.events)) = 1

\* A batch of valid distinct rows that changes nothing notifies nothing
C33_WitnessUnchanged ==
  /\ last.op = "updateHeights"
  /\ last.before.total = 2
  /\ Len(last.args.updates) = 2
  /\ DistinctValid(last.args.updates, 2)
  /\ \A k \in 1..2 : IsValid(last.args.updates[k], 2)
  /\ ChangedRows(last.before.positions, 2, last.args.updates) = {}
  /\ last.events = <<>>

\* If the call that led from the state before to the state c changed the
\* total height, the last onTotalHeightChange of the call carries the height
\* of c
NotifiedIfChanged(c) ==
  getTotalHeight(c) # getTotalHeight(This) =>
    LET ns == HeightNotifications(c.events) IN
    /\ ns # <<>>
    /\ ns[Len(ns)].x = getTotalHeight(c)

\* C34: after construction and after every public operation has returned,
\* the value passed to the most recent onTotalHeightChange is the current
\* getTotalHeight(); no operation changes the total height without a later
\* notification, within the same call, that carries the new value.
C34_NotifiedHeightInSync ==
  /\ notified = getTotalHeight(This)
  /\ HeightNotifications(last.events) # <<>> =>
       HeightNotifications(last.events)[Len(HeightNotifications(last.events))].x
         = getTotalHeight(This)
  /\ \A n \in Totals : NotifiedIfChanged(setTotal(This, n))
  /\ \A n \in {None} \cup {Some(t) : t \in Totals} : NotifiedIfChanged(reset(This, n))
  /\ \A us \in Batches, s \in ScrollTops :
       NotifiedIfChanged(updateHeights(This, us, s, "void"))
  /\ nextSid <= MaxSessions =>
       \A i \in Indices, o \in Options, r \in OnScrollReturns :
         NotifiedIfChanged(scrollToIndex(This, i, o, r))
  /\ NotifiedIfChanged(abortScrollTo(This))
  /\ \A r \in OnScrollReturns : NotifiedIfChanged(notifyScrollComplete(This, r))

\* A table of two rows whose total height has moved away from 2 * 1 by a
\* measured height: the host has been told the new total
C34_Witness ==
  /\ last.op = "updateHeights"
  /\ total = 2
  /\ getTotalHeight(This) = 3
  /\ notified = 3

\* setTotal has shrunk the table and the host holds the smaller total height
C34_WitnessShrunk ==
  /\ last.op = "setTotal"
  /\ total = 1
  /\ last.events # <<>>
  /\ notified = getTotalHeight(This)
  /\ notified < 2

\* C35: in every state between public calls, an active session has
\* 0 <= targetIndex < total, so total > 0 and the row the convergence check
\* reads exists, whatever scrollToIndex, setTotal, reset and updateHeights
\* calls came before.
C35_ActiveTargetValid ==
  scrollToCtx # NoCtx =>
    /\ 0 <= scrollToCtx.targetIndex
    /\ scrollToCtx.targetIndex < total
    /\ total > 0
    /\ scrollToCtx.targetIndex + 1 \in DOMAIN positions
    /\ At(positions, scrollToCtx.targetIndex).index = scrollToCtx.targetIndex

\* A session to row 0 that a setTotal from two rows to one has left active
C35_Witness ==
  /\ last.op = "setTotal"
  /\ total = 1
  /\ scrollToCtx # NoCtx
  /\ scrollToCtx.targetIndex = 0
  /\ last.events = << Ev("onTotalHeightChange", 0, getTotalHeight(This), 0, "") >>

Runnable(k) ==
  \/ tasks[k].kind = "promise"
  \/ /\ tasks[k].kind = "microtask"
     /\ \A j \in 1..(k - 1) : tasks[j].kind # "microtask"

\* What running the completion tasks[k] does to the machine
RunCompletion(k, r) ==
  IF tasks[k].kind = "microtask"
  THEN deferredNotify([This EXCEPT !.tasks = Without(@, k)], tasks[k], r)
  ELSE onScrollResolved([This EXCEPT !.tasks = Without(@, k)], tasks[k], r)

\* C37: within one session, the completion (promise resolution or deferred
\* microtask) of an earlier onScroll call never takes the session out of
\* 'scrolling' for a later onScroll call: run while iteration k is in flight,
\* the completion of iteration n < k changes nothing and invokes no
\* callback, also when notifyScrollComplete() was called by the host while
\* that completion was pending.
C37_CompletionsMatchOwnScroll ==
  \A k \in 1..Len(tasks), r \in OnScrollReturns :
    (/\ scrollToCtx # NoCtx
     /\ Runnable(k)
     /\ tasks[k].sid = scrollToCtx.sid
     /\ tasks[k].n < scrollToCtx.iterations) =>
      LET c == RunCompletion(k, r) IN
      /\ c.scrollToCtx = scrollToCtx
      /\ c.hist = hist
      /\ c.events = <<>>

\* The completion of the first scroll is still queued while the second
\* scroll of the same session is in flight
C37_StaleCompletionPending ==
  \E k \in 1..Len(tasks) :
    /\ scrollToCtx # NoCtx
    /\ Runnable(k)
    /\ tasks[k].sid = scrollToCtx.sid
    /\ tasks[k].n = 1
    /\ scrollToCtx.iterations = 2

\* The sessions scrollToIndex has started (given a number to) that have had
\* no terminal callback
StartedNotEnded ==
  {sid \in 1..MaxSessions : sid < nextSid /\ ~Ended(sid)}

\* C38: when an onComplete or onAbort callback is invoked, isScrolling() is
\* already false for the session that ends; and isScrolling() is true exactly
\* in the states where a session started by scrollToIndex has not yet had its
\* terminal callback.
C38_ClearedBeforeTerminalCallback ==
  /\ \A k \in 1..Len(last.seen) : ~last.seen[k].isScrolling
  /\ Len(last.seen)
       = Len(SelectSeq(last.events, LAMBDA e : e.cb \in {"onComplete", "onAbort"}))
  /\ isScrolling(This) <=> StartedNotEnded # {}
  /\ isScrolling(This) => StartedNotEnded = {scrollToCtx.sid}

\* A convergence check has ended session 1 with onComplete; the callback
\* found isScrolling() false, and it is false now
C38_Witness ==
  /\ last.op \in {"notifyScrollComplete", "microtask", "resolve"}
  /\ last.events # <<>>
  /\ last.events[Len(last.events)].cb = "onComplete"
  /\ last.seen = << [cb |-> "onComplete", sid |-> 1, isScrolling |-> FALSE] >>
  /\ hist[1].completes = 1
  /\ ~isScrolling(This)

\* An abort has ended the session; onAbort found isScrolling() false
C38_WitnessAbort ==
  /\ last.op = "abortScrollTo"
  /\ Len(last.seen) = 1
  /\ last.seen[1].cb = "onAbort"
  /\ ~last.seen[1].isScrolling
  /\ ~isScrolling(This)

============================================================================
